---- MODULE Spec2Model ----
(***************************************************************************)
(* Model of the heuristic emotion classifier                               *)
(* (hopes_sorrows/analysis/sentiment/advanced_classifier.py) and of the    *)
(* combination engine (hopes_sorrows/analysis/sentiment/                   *)
(* combined_analyzer.py).                                                  *)
(*                                                                         *)
(* Texts are strings and are matched character by character.  Real numbers *)
(* are exact rationals <<n, d>> in lowest terms with d > 0.  Offsets into  *)
(* a text are 0-based, as in the source: text[a:b] is SubSeq(text, a+1, b).*)
(***************************************************************************)
EXTENDS Integers, Sequences, FiniteSets, TLC

VARIABLES speaker_profiles, narrative_arcs, history, nupdates, strategy, combined,
          threads, objects, _combined_analyzer

vars == <<speaker_profiles, narrative_arcs, history, nupdates, strategy, combined,
          threads, objects, _combined_analyzer>>

-----------------------------------------------------------------------------
(* Exact rational arithmetic for the source's floats.                      *)

Abs(n) == IF n < 0 THEN -n ELSE n

RECURSIVE Gcd(_, _)
Gcd(a, b) == IF b = 0 THEN a ELSE Gcd(b, a % b)

Rat(n, d) ==
    LET s == IF d < 0 THEN -1 ELSE 1
        g == Gcd(Abs(n), Abs(d))
    IN  <<(s * n) \div g, (s * d) \div g>>

Zero == <<0, 1>>
One == <<1, 1>>
Tenths(n) == Rat(n, 10)
Hundredths(n) == Rat(n, 100)

\* The operations cancel common factors before they multiply, which keeps the
\* intermediate products small.
RAdd(a, b) ==
    LET g == Gcd(a[2], b[2])
    IN  Rat(a[1] * (b[2] \div g) + b[1] * (a[2] \div g), (a[2] \div g) * b[2])
RNeg(a) == <<-a[1], a[2]>>
RSub(a, b) == RAdd(a, RNeg(b))
RMul(a, b) ==
    LET g1 == Gcd(Abs(a[1]), b[2])
        g2 == Gcd(Abs(b[1]), a[2])
    IN  <<(a[1] \div g1) * (b[1] \div g2), (a[2] \div g2) * (b[2] \div g1)>>
RDiv(a, b) == RMul(a, Rat(b[2], b[1]))
RAbs(a) == <<Abs(a[1]), a[2]>>
RLess(a, b) ==
    LET g == Gcd(a[2], b[2])
    IN  a[1] * (b[2] \div g) < b[1] * (a[2] \div g)
RLeq(a, b) == ~RLess(b, a)
\* Python's min(a, b) and max(a, b): the first argument wins a tie.
RMin(a, b) == IF RLess(b, a) THEN b ELSE a
RMax(a, b) == IF RLess(a, b) THEN b ELSE a

-----------------------------------------------------------------------------
(* Characters and the string methods the source uses.                      *)

LowerLetters == "abcdefghijklmnopqrstuvwxyz"
UpperLetters == "ABCDEFGHIJKLMNOPQRSTUVWXYZ"
DigitChars == "0123456789"

CharAt(s, i) == SubSeq(s, i, i)
Slice(s, a, b) == SubSeq(s, a + 1, b)
CharsOf(s) == {CharAt(s, i) : i \in 1..Len(s)}
LowerSet == CharsOf(LowerLetters)
UpperSet == CharsOf(UpperLetters)
WordSet == LowerSet \cup UpperSet \cup CharsOf(DigitChars) \cup {"_"}

IsLower(c) == c \in LowerSet
IsUpper(c) == c \in UpperSet
IsAlpha(c) == IsLower(c) \/ IsUpper(c)
IsSpace(c) == c \in {" ", "\t", "\n"}
\* \w of the regex engine
IsWordChar(c) == c \in WordSet

LowerChar(c) ==
    IF IsUpper(c)
    THEN CharAt(LowerLetters, CHOOSE i \in 1..26 : CharAt(UpperLetters, i) = c)
    ELSE c

\* The characters lo..hi of s in lower case, built by halving.
RECURSIVE LowerRange(_, _, _)
LowerRange(s, lo, hi) ==
    IF lo > hi THEN ""
    ELSE IF lo = hi THEN LowerChar(CharAt(s, lo))
    ELSE LowerRange(s, lo, (lo + hi) \div 2)
            \o LowerRange(s, (lo + hi) \div 2 + 1, hi)

\* str.lower()
Lower(s) == LowerRange(s, 1, Len(s))

\* needle in haystack
Contains(haystack, needle) ==
    \E i \in 0..(Len(haystack) - Len(needle)) :
        Slice(haystack, i, i + Len(needle)) = needle

\* str.strip()
RECURSIVE LStrip(_)
LStrip(s) == IF s # "" /\ IsSpace(CharAt(s, 1)) THEN LStrip(Tail(s)) ELSE s
RECURSIVE RStrip(_)
RStrip(s) ==
    IF s # "" /\ IsSpace(CharAt(s, Len(s)))
    THEN RStrip(SubSeq(s, 1, Len(s) - 1)) ELSE s
Strip(s) == RStrip(LStrip(s))

\* str.split(): the maximal runs of non-whitespace characters, in order
Split(s) ==
    LET IsText(i) == i >= 1 /\ i <= Len(s) /\ ~IsSpace(CharAt(s, i))
        starts == {i \in 1..Len(s) : IsText(i) /\ ~IsText(i - 1)}
        StartOf(k) == CHOOSE i \in starts : Cardinality({j \in starts : j < i}) = k - 1
        EndOf(i) == CHOOSE j \in i..Len(s) :
                        ~IsText(j + 1) /\ \A m \in i..j : IsText(m)
    IN  [k \in 1..Cardinality(starts) |-> SubSeq(s, StartOf(k), EndOf(StartOf(k)))]

-----------------------------------------------------------------------------
(* The regular expressions of the source, as syntax trees matched by a     *)
(* backtracking matcher.  Ends(node, text, i) lists, in the order the      *)
(* backtracking engine tries them, the offsets at which a match of node    *)
(* that starts at offset i can end.                                        *)

Lit(s) == [k |-> "lit", s |-> s]
DotStar == [k |-> "any"]                   \* .*  (greedy)
B == [k |-> "b"]                         \* \b
Ws == [k |-> "ws"]                       \* \s+ (greedy)
Cat(items) == [k |-> "cat", a |-> items]
Alt(items) == [k |-> "alt", a |-> items]
NotAhead(node) == [k |-> "nla", n |-> node]   \* (?!node)

\* lit1.*lit2.*lit3
Gap(strs) ==
    Cat([i \in 1..(2 * Len(strs) - 1) |->
            IF i % 2 = 1 THEN Lit(strs[(i + 1) \div 2]) ELSE DotStar])
\* (a|b|c) of literals
Or(strs) == Alt([i \in 1..Len(strs) |-> Lit(strs[i])])
\* \b(a|b|c)\b of literals
Word(strs) == Cat(<<B, Or(strs), B>>)
\* \b(x|y|z)\b of arbitrary alternatives
Group(items) == Cat(<<B, Alt(items), B>>)

AtWordBoundary(text, i) ==
    LET before == i >= 1 /\ IsWordChar(CharAt(text, i))
        after == i < Len(text) /\ IsWordChar(CharAt(text, i + 1))
    IN  before # after

RECURSIVE SpaceRun(_, _)
SpaceRun(text, i) ==
    IF i < Len(text) /\ IsSpace(CharAt(text, i + 1))
    THEN 1 + SpaceRun(text, i + 1) ELSE 0

RECURSIVE Ends(_, _, _)
RECURSIVE AltEnds(_, _, _, _)
RECURSIVE CatEnds(_, _, _, _)
RECURSIVE RestEnds(_, _, _, _, _, _)

Ends(node, text, i) ==
    CASE node.k = "lit" ->
            IF i + Len(node.s) <= Len(text)
               /\ Slice(text, i, i + Len(node.s)) = node.s
            THEN <<i + Len(node.s)>> ELSE <<>>
      [] node.k = "b" -> IF AtWordBoundary(text, i) THEN <<i>> ELSE <<>>
      [] node.k = "any" -> [j \in 1..(Len(text) - i + 1) |-> Len(text) - j + 1]
      [] node.k = "ws" ->
            LET n == SpaceRun(text, i) IN [j \in 1..n |-> i + n - j + 1]
      [] node.k = "nla" -> IF Ends(node.n, text, i) = <<>> THEN <<i>> ELSE <<>>
      [] node.k = "alt" ->
            AltEnds(node.a, 1, text, i)
      [] node.k = "cat" -> CatEnds(node.a, 1, text, i)

\* The alternatives from idx on, tried in the order they are written.
AltEnds(items, idx, text, i) ==
    IF idx > Len(items) THEN <<>>
    ELSE Ends(items[idx], text, i) \o AltEnds(items, idx + 1, text, i)

\* The items from idx on, matched one after another: for each end of the
\* first, in order, the ends of the rest.
CatEnds(items, idx, text, i) ==
    IF idx > Len(items) THEN <<i>>
    ELSE RestEnds(items, idx, text, Ends(items[idx], text, i),
                  1, Len(Ends(items[idx], text, i)))

\* The ends of the items after idx, for the lo-th to hi-th end of item idx,
\* built by halving.
RestEnds(items, idx, text, ends, lo, hi) ==
    IF lo > hi THEN <<>>
    ELSE IF lo = hi THEN CatEnds(items, idx + 1, text, ends[lo])
    ELSE RestEnds(items, idx, text, ends, lo, (lo + hi) \div 2)
            \o RestEnds(items, idx, text, ends, (lo + hi) \div 2 + 1, hi)

\* re.finditer: the non-overlapping matches, leftmost first, as [start, end);
\* the scan resumes where the match before ended.
RECURSIVE FindIter(_, _, _)
RECURSIVE FirstMatch(_, _, _)
RECURSIVE MatchAt(_, _, _, _)
FindIter(node, text, pos) ==
    FirstMatch(node, text, {p \in pos..Len(text) : Ends(node, text, p) # <<>>})

\* The scan reports the leftmost offset at which the pattern matches.
FirstMatch(node, text, starts) ==
    IF starts = {} THEN <<>>
    ELSE MatchAt(node, text, CHOOSE q \in starts : \A r \in starts : q <= r,
                 Ends(node, text, CHOOSE q \in starts : \A r \in starts : q <= r))

\* The match at offset p is the first end the engine finds there.
MatchAt(node, text, p, ends) ==
    <<[start |-> p, end |-> ends[1]]>>
        \o FindIter(node, text, IF ends[1] > p THEN ends[1] ELSE p + 1)

\* The offsets lo..hi of the text with every match in `found` replaced and
\* every other character kept, built by halving.
RECURSIVE Replaced(_, _, _, _, _)
Replaced(found, replacement, text, lo, hi) ==
    IF lo > hi THEN ""
    ELSE IF lo = hi
    THEN IF \E j \in 1..Len(found) : found[j].start = lo THEN replacement
         ELSE IF \E j \in 1..Len(found) : found[j].start < lo /\ lo < found[j].end
         THEN ""
         ELSE CharAt(text, lo + 1)
    ELSE Replaced(found, replacement, text, lo, (lo + hi) \div 2)
            \o Replaced(found, replacement, text, (lo + hi) \div 2 + 1, hi)

\* re.sub(r'\bword\b', replacement, text) for a literal word.
ReSub(word, replacement, text) ==
    Replaced(FindIter(Cat(<<B, Lit(word), B>>), text, 0), replacement, text,
             0, Len(text) - 1)

-----------------------------------------------------------------------------
(* EmotionCategory, in declaration order (the iteration order of the Enum  *)
(* and of every dict built from it).                                       *)

HOPE == "hope"
SORROW == "sorrow"
TRANSFORMATIVE == "transformative"
AMBIVALENT == "ambivalent"
REFLECTIVE_NEUTRAL == "reflective_neutral"

EmotionCategory == <<HOPE, SORROW, TRANSFORMATIVE, AMBIVALENT, REFLECTIVE_NEUTRAL>>
Categories == {EmotionCategory[i] : i \in 1..Len(EmotionCategory)}

\* LinguisticPattern(pattern, weight, category, description); the weight in
\* hundredths
LinguisticPattern(p, w, c, d) ==
    [pattern |-> p, weight |-> w, category |-> c, description |-> d]

hope_patterns == <<
    LinguisticPattern(Word(<<"happy", "joy", "delighted", "thrilled", "excited", "elated">>),
        90, HOPE, "Explicit happiness"),
    LinguisticPattern(Word(<<"will", "going to", "plan to", "hope", "dream", "wish">>),
        80, HOPE, "Future-oriented language"),
    LinguisticPattern(Word(<<"maybe", "could", "might", "possibility", "chance">>),
        60, HOPE, "Possibility language"),
    LinguisticPattern(Word(<<"learn", "grow", "improve", "better", "progress">>),
        70, HOPE, "Growth language"),
    LinguisticPattern(Word(<<"goal", "ambition", "vision", "future", "tomorrow">>),
        90, HOPE, "Aspiration words"),
    LinguisticPattern(Word(<<"excited", "thrilled", "eager", "looking forward", "can't wait">>),
        80, HOPE, "Excitement indicators") >>

sorrow_patterns == <<
    LinguisticPattern(Word(<<"sad", "depressed", "miserable", "unhappy", "gloomy", "down">>),
        90, SORROW, "Explicit sadness"),
    LinguisticPattern(Word(<<"lost", "gone", "never again", "no more", "ended">>),
        80, SORROW, "Loss language"),
    LinguisticPattern(Word(<<"should have", "if only", "regret", "mistake", "wrong">>),
        70, SORROW, "Regret language"),
    LinguisticPattern(Word(<<"hurt", "pain", "broken", "damaged", "wounded">>),
        90, SORROW, "Pain language"),
    LinguisticPattern(Word(<<"over", "finished", "done", "impossible", "hopeless">>),
        80, SORROW, "Finality language"),
    LinguisticPattern(Word(<<"demolished", "destroyed", "torn down", "knocked down">>),
        90, SORROW, "Destruction language"),
    LinguisticPattern(Word(<<"childhood home", "family home", "grew up", "where I lived">>),
        70, SORROW, "Nostalgic places"),
    LinguisticPattern(Group(<<Gap(<<"broke", "inside">>), Gap(<<"broke", "heart">>),
                              Gap(<<"something", "inside", "me">>)>>),
        95, SORROW, "Internal breaking"),
    LinguisticPattern(Group(<<Gap(<<"watching", "demolished">>), Gap(<<"seeing", "destroyed">>),
                              Gap(<<"witnessed", "torn">>)>>),
        90, SORROW, "Witnessing destruction"),
    LinguisticPattern(Cat(<<B, Or(<<"memories", "childhood", "growing up">>), DotStar,
                            B, Or(<<"lost", "gone", "destroyed">>), B>>),
        90, SORROW, "Lost memories"),
    LinguisticPattern(Group(<<Gap(<<"home", "demolished">>), Gap(<<"house", "torn">>),
                              Gap(<<"building", "destroyed">>)>>),
        85, SORROW, "Home destruction"),
    LinguisticPattern(Word(<<"terrified", "scared", "afraid", "frightened", "anxious", "worried">>),
        70, SORROW, "Fear indicators") >>

transformative_patterns == <<
    LinguisticPattern(Word(<<"learned", "realized", "understand now", "see that">>),
        80, TRANSFORMATIVE, "Learning language"),
    LinguisticPattern(Word(<<"healing", "moving on", "getting better", "finding strength">>),
        90, TRANSFORMATIVE, "Recovery language"),
    LinguisticPattern(Word(<<"growth", "journey", "transformation", "evolution",
                             "change for the better">>),
        80, TRANSFORMATIVE, "Personal development"),
    LinguisticPattern(Word(<<"overcame", "conquered", "survived", "made it through",
                             "came out stronger">>),
        90, TRANSFORMATIVE, "Overcoming language"),
    LinguisticPattern(Group(<<Lit("but now"), Lit("however now"), Lit("although now"),
                              Gap(<<"despite that", "now">>)>>),
        70, TRANSFORMATIVE, "Temporal transition"),
    LinguisticPattern(Group(<<Gap(<<"used to", "but now">>), Gap(<<"once", "but now">>),
                              Gap(<<"before", "but now">>)>>),
        80, TRANSFORMATIVE, "Before/after transition"),
    LinguisticPattern(Cat(<<B, Or(<<"death", "loss", "divorce", "tragedy", "accident", "illness">>),
                            DotStar, B,
                            Or(<<"taught", "showed", "learned", "made me", "helped me", "forced me">>),
                            B>>),
        95, TRANSFORMATIVE, "Learning from tragedy"),
    LinguisticPattern(Word(<<"taught me", "showed me", "made me realize",
                             "helped me understand", "forced me to">>),
        90, TRANSFORMATIVE, "Explicit learning"),
    LinguisticPattern(Cat(<<B, Or(<<"devastating", "terrible", "heartbreak", "cancer", "losing">>),
                            DotStar, B, Or(<<"but", "however", "yet">>),
                            DotStar, B,
                            Or(<<"discover", "learn", "realize", "understand", "appreciate">>),
                            B>>),
        95, TRANSFORMATIVE, "Growth through adversity"),
    LinguisticPattern(Cat(<<B, Or(<<"although", "despite", "even though">>),
                            DotStar, B, Or(<<"ended", "failed", "lost">>),
                            DotStar, B,
                            Or(<<"learning", "discovering", "finding", "becoming">>), B>>),
        90, TRANSFORMATIVE, "Growth despite loss"),
    LinguisticPattern(Cat(<<B, Or(<<"grateful", "thankful">>), DotStar,
                            B, Or(<<"taught", "showed", "learned">>), B>>),
        80, TRANSFORMATIVE, "Gratitude for lessons") >>

ambivalent_patterns == <<
    LinguisticPattern(Group(<<Gap(<<"excited", "but", "terrified">>),
                              Gap(<<"thrilled", "but", "scared">>),
                              Gap(<<"happy", "but", "sad">>)>>),
        95, AMBIVALENT, "Simultaneous opposing emotions"),
    LinguisticPattern(Group(<<Gap(<<"love", "but", "hate">>), Gap(<<"want", "but", "don't">>),
                              Gap(<<"yes", "but", "no">>)>>),
        90, AMBIVALENT, "Love-hate dynamics"),
    LinguisticPattern(Group(<<Gap(<<"part of me", "but", "part of me">>),
                              Gap(<<"on one hand", "on the other">>)>>),
        90, AMBIVALENT, "Internal conflict"),
    LinguisticPattern(Group(<<Cat(<<Lit("both"), DotStar, Lit("and"), DotStar>>),
                              Gap(<<"feels like both", "and">>),
                              Gap(<<"like both", "and">>)>>),
        98, AMBIVALENT, "Explicit dual emotions"),
    LinguisticPattern(Group(<<Gap(<<"both an adventure and", "mistake">>),
                              Gap(<<"both", "and", "terrible">>),
                              Gap(<<"both", "and", "wonderful">>)>>),
        99, AMBIVALENT, "Both positive and negative"),
    LinguisticPattern(Word(<<"mixed feelings", "conflicted", "torn between", "can't decide">>),
        95, AMBIVALENT, "Explicit mixed feelings"),
    LinguisticPattern(Word(<<"bittersweet", "love-hate", "push-pull", "back and forth">>),
        90, AMBIVALENT, "Ambivalent descriptors"),
    LinguisticPattern(Group(<<Gap(<<"simultaneously", "and">>),
                              Gap(<<"at the same time", "but">>)>>),
        85, AMBIVALENT, "Simultaneous feelings"),
    LinguisticPattern(Group(<<Gap(<<"excited", "afraid">>), Gap(<<"happy", "worried">>),
                              Gap(<<"hopeful", "doubtful">>)>>),
        85, AMBIVALENT, "Emotional contradictions"),
    LinguisticPattern(Group(<<Gap(<<"want", "scared">>), Gap(<<"eager", "nervous">>),
                              Gap(<<"looking forward", "dreading">>)>>),
        85, AMBIVALENT, "Approach-avoidance conflict"),
    LinguisticPattern(Cat(<<B, Or(<<"but", "however", "although", "yet", "still">>), DotStar,
                            B, Or(<<"excited", "scared", "happy", "sad", "worried", "thrilled">>),
                            B>>),
        60, AMBIVALENT, "Emotional contrasts"),
    LinguisticPattern(Cat(<<B, Or(<<"excited", "happy", "thrilled", "eager">>), DotStar,
                            B, Or(<<"but", "however", "although", "yet">>), DotStar,
                            B, Or(<<"scared", "afraid", "worried", "nervous", "terrified">>),
                            B>>),
        90, AMBIVALENT, "Positive-negative emotional contrast"),
    LinguisticPattern(Group(<<Lit("don't know how to feel"), Gap(<<"not sure", "feel">>),
                              Gap(<<"complicated", "emotions">>)>>),
        80, AMBIVALENT, "Emotional uncertainty"),
    LinguisticPattern(Word(<<"should be happy but", "should be excited but", "supposed to feel">>),
        80, AMBIVALENT, "Expected vs actual emotions"),
    LinguisticPattern(Group(<<Gap(<<"love", "but", "miss">>), Gap(<<"want", "but", "afraid">>),
                              Gap(<<"proud", "but", "guilty">>)>>),
        90, AMBIVALENT, "Relationship ambivalence") >>

reflective_neutral_patterns == <<
    LinguisticPattern(Word(<<"thinking about", "pondering", "contemplating", "reflecting on",
                             "considering">>),
        80, REFLECTIVE_NEUTRAL, "Contemplative processes"),
    LinguisticPattern(Word(<<"wonder", "curious", "interesting to note", "worth noting", "observe">>),
        70, REFLECTIVE_NEUTRAL, "Intellectual curiosity"),
    LinguisticPattern(Word(<<"seems", "appears", "looks like", "strikes me", "occurs to me">>),
        60, REFLECTIVE_NEUTRAL, "Observational language"),
    LinguisticPattern(Cat(<<B, Or(<<"questioning", "question", "examine", "reexamine">>), DotStar,
                            B, Or(<<"values", "beliefs", "assumptions", "faith", "principles">>),
                            B>>),
        95, REFLECTIVE_NEUTRAL, "Belief examination"),
    LinguisticPattern(Group(<<Gap(<<"what I", "believe">>), Gap(<<"what I", "think">>),
                              Lit("what really matters"), Gap(<<"what", "means">>)>>),
        90, REFLECTIVE_NEUTRAL, "Personal philosophy"),
    LinguisticPattern(Cat(<<B, Or(<<"grew up with", "raised to believe", "always thought">>),
                            DotStar, B, Or(<<"but now", "question", "wonder", "different">>), B>>),
        90, REFLECTIVE_NEUTRAL, "Belief evolution"),
    LinguisticPattern(Group(<<Gap(<<"find myself", "questioning">>),
                              Gap(<<"find myself", "wondering">>),
                              Gap(<<"find myself", "thinking">>)>>),
        95, REFLECTIVE_NEUTRAL, "Self-reflection discovery"),
    LinguisticPattern(Word(<<"analyzing", "examining", "evaluating", "assessing", "reviewing">>),
        80, REFLECTIVE_NEUTRAL, "Analytical processes"),
    LinguisticPattern(Word(<<"perspective", "viewpoint", "angle", "way of looking", "lens">>),
        70, REFLECTIVE_NEUTRAL, "Perspective-taking"),
    LinguisticPattern(Word(<<"objectively", "from a distance", "stepping back", "big picture">>),
        80, REFLECTIVE_NEUTRAL, "Objective stance"),
    LinguisticPattern(Word(<<"notice", "observe", "see that", "recognize", "acknowledge">>),
        60, REFLECTIVE_NEUTRAL, "Neutral observation"),
    LinguisticPattern(Word(<<"fact", "reality", "truth", "situation", "circumstances">>),
        60, REFLECTIVE_NEUTRAL, "Factual framing"),
    LinguisticPattern(Word(<<"simply", "just", "merely", "basically", "essentially">>),
        50, REFLECTIVE_NEUTRAL, "Simplifying language"),
    LinguisticPattern(Word(<<"meaning", "purpose", "significance", "implications", "consequences">>),
        75, REFLECTIVE_NEUTRAL, "Abstract concepts"),
    LinguisticPattern(Word(<<"life", "existence", "human nature", "the way things are",
                             "how things work">>),
        70, REFLECTIVE_NEUTRAL, "Philosophical topics"),
    LinguisticPattern(Word(<<"pattern", "cycle", "process", "system", "mechanism">>),
        60, REFLECTIVE_NEUTRAL, "Systems thinking"),
    LinguisticPattern(Word(<<"often wonder", "sometimes think", "makes me wonder",
                             "interesting how">>),
        80, REFLECTIVE_NEUTRAL, "Contemplative wondering"),
    LinguisticPattern(Word(<<"perspective changes", "experience more", "get older", "as you">>),
        75, REFLECTIVE_NEUTRAL, "Experiential wisdom"),
    LinguisticPattern(Word(<<"carefully", "thoughtfully", "deliberately", "methodically",
                             "systematically">>),
        70, REFLECTIVE_NEUTRAL, "Measured approach"),
    LinguisticPattern(Word(<<"balance", "weigh", "consider", "factor in", "take into account">>),
        70, REFLECTIVE_NEUTRAL, "Balanced thinking"),
    LinguisticPattern(Cat(<<B, Or(<<"understand", "comprehend", "grasp", "see", "get">>),
                            NotAhead(Cat(<<Ws, Or(<<"excited", "happy", "sad", "angry", "afraid">>)>>)),
                            B>>),
        50, REFLECTIVE_NEUTRAL, "Neutral understanding"),
    LinguisticPattern(Word(<<"makes sense", "reasonable", "logical", "rational", "practical">>),
        60, REFLECTIVE_NEUTRAL, "Rational evaluation"),
    LinguisticPattern(Group(<<Lit("choices"), Lit("decisions"), Lit("paths"),
                              Gap(<<"different", "life">>), Lit("if I had")>>),
        70, REFLECTIVE_NEUTRAL, "Life contemplation"),
    LinguisticPattern(Group(<<Gap(<<"stories", "connected">>), Lit("meaningful life"),
                              Gap(<<"live", "meaningful">>)>>),
        80, REFLECTIVE_NEUTRAL, "Meaning-making") >>

-----------------------------------------------------------------------------
(* AdvancedHopeSorrowClassifier                                            *)

all_patterns ==
    hope_patterns \o sorrow_patterns \o transformative_patterns
        \o ambivalent_patterns \o reflective_neutral_patterns

\* The context modifier with the negation and the intensifier applied one
\* after the other.
ContextScoreStacked(text, m) ==
    LET start == IF m.start - 20 > 0 THEN m.start - 20 ELSE 0
        end == IF m.end + 20 < Len(text) THEN m.end + 20 ELSE Len(text)
        context == Slice(text, start, end)
    IN  RMul(IF Contains(context, "not") \/ Contains(context, "never")
             THEN Rat(-1, 1) ELSE One,
             IF Contains(context, "very") \/ Contains(context, "really")
             THEN Rat(3, 2) ELSE One)

\* The context modifier of one match: the text within 20 characters of it.
ContextScore(text, m) ==
    LET start == IF m.start - 20 > 0 THEN m.start - 20 ELSE 0
        end == IF m.end + 20 < Len(text) THEN m.end + 20 ELSE Len(text)
        context == Slice(text, start, end)
    IN  IF Contains(context, "not") \/ Contains(context, "never") THEN Rat(-1, 1)
        ELSE IF Contains(context, "very") \/ Contains(context, "really") THEN Rat(3, 2)
        ELSE One

\* The (pattern, score) pairs of one pattern; a pattern is recorded by its
\* category, weight and description.
ScoredMatches(pattern, text, found) ==
    [j \in 1..Len(found) |->
        [category |-> pattern.category,
         description |-> pattern.description,
         weight |-> pattern.weight,
         score |-> RMul(Hundredths(pattern.weight), ContextScore(text, found[j]))]]

MatchesOfPattern(pattern, text) ==
    ScoredMatches(pattern, text, FindIter(pattern.pattern, Lower(text), 0))

\* The matches of the lo-th to hi-th pattern, in the order of the list,
\* built by halving.
RECURSIVE DetectRange(_, _, _, _)
DetectRange(patterns, lo, hi, text) ==
    IF lo > hi THEN <<>>
    ELSE IF lo = hi THEN MatchesOfPattern(patterns[lo], text)
    ELSE DetectRange(patterns, lo, (lo + hi) \div 2, text)
            \o DetectRange(patterns, (lo + hi) \div 2 + 1, hi, text)

_detect_patterns(text) == DetectRange(all_patterns, 1, Len(all_patterns), text)

RECURSIVE SumScores(_, _, _)
SumScores(matches, category, idx) ==
    IF idx > Len(matches) THEN Zero
    ELSE LET rest == SumScores(matches, category, idx + 1)
         IN  IF matches[idx].category = category
             THEN RAdd(matches[idx].score, rest) ELSE rest

\* sum(abs(score) for score in scores.values())
TotalAbs(scores) ==
    RAdd(RAbs(scores[HOPE]),
      RAdd(RAbs(scores[SORROW]),
        RAdd(RAbs(scores[TRANSFORMATIVE]),
          RAdd(RAbs(scores[AMBIVALENT]), RAbs(scores[REFLECTIVE_NEUTRAL])))))

\* The ambivalent logic without the boost from contrasting hope and sorrow.
ApplyAmbivalentLogicNoBoost(matches, scores) ==
    IF \E i \in 1..Len(matches) :
          matches[i].category = AMBIVALENT /\ RLess(Tenths(8), matches[i].score)
    THEN [scores EXCEPT ![AMBIVALENT] = RMul(@, Rat(2, 1))]
    ELSE scores

_apply_ambivalent_logic(matches, scores) ==
    LET hope_score == scores[HOPE]
        sorrow_score == scores[SORROW]
        boosted ==
            IF RLess(Tenths(3), hope_score) /\ RLess(Tenths(3), sorrow_score)
            THEN [scores EXCEPT ![AMBIVALENT] =
                     RAdd(@, RMul(RMin(hope_score, sorrow_score), Rat(3, 2)))]
            ELSE scores
        ambivalent_matches ==
            {i \in 1..Len(matches) : matches[i].category = AMBIVALENT}
    IN  IF ambivalent_matches # {}
           /\ \E i \in ambivalent_matches : RLess(Tenths(8), matches[i].score)
        THEN [boosted EXCEPT ![AMBIVALENT] = RMul(@, Rat(2, 1))]
        ELSE boosted

\* _calculate_category_scores without the division by the total.
CalculateCategoryScoresRaw(matches) ==
    _apply_ambivalent_logic(matches, [c \in Categories |-> SumScores(matches, c, 1)])

_calculate_category_scores(matches) ==
    LET summed == [c \in Categories |-> SumScores(matches, c, 1)]
        scores == _apply_ambivalent_logic(matches, summed)
        total == TotalAbs(scores)
    IN  IF RLess(Zero, total)
        THEN [c \in Categories |-> RDiv(scores[c], total)]
        ELSE scores

\* _detect_narrative_arc appends to the speaker's log and scores the last 5
\* entries: the log after the call, and the score returned.
ArcAppend(arcs, speaker_id, current_category) ==
    LET log == IF speaker_id \in DOMAIN arcs THEN arcs[speaker_id] ELSE <<>>
    IN  [s \in (DOMAIN arcs) \cup {speaker_id} |->
            IF s = speaker_id THEN Append(log, current_category) ELSE arcs[s]]

\* The arc score read from the whole log instead of its last 5 entries.
ArcScoreWholeLog(log) ==
    IF Len(log) < 2 THEN Zero
    ELSE IF \E i \in 1..Len(log) : log[i] = TRANSFORMATIVE THEN Tenths(8)
    ELSE IF log[Len(log)] = HOPE /\ log[1] = SORROW THEN Tenths(7)
    ELSE Zero

ArcScore(log) ==
    LET n == Len(log)
        recent_history == SubSeq(log, IF n > 5 THEN n - 4 ELSE 1, n)
    IN  IF Len(recent_history) < 2 THEN Zero
        ELSE IF \E i \in 1..Len(recent_history) : recent_history[i] = TRANSFORMATIVE
        THEN Tenths(8)
        ELSE IF recent_history[Len(recent_history)] = HOPE /\ recent_history[1] = SORROW
        THEN Tenths(7)
        ELSE Zero

_detect_narrative_arc(arcs, speaker_id, current_category) ==
    LET after == ArcAppend(arcs, speaker_id, current_category)
    IN  [arcs |-> after, score |-> ArcScore(after[speaker_id])]

\* _get_speaker_calibration creates the all-1.0 profile on first use.
NewProfile == [c \in Categories |-> One]

_get_speaker_calibration(profiles, speaker_id) ==
    IF speaker_id \in DOMAIN profiles THEN profiles
    ELSE [s \in (DOMAIN profiles) \cup {speaker_id} |->
            IF s = speaker_id THEN NewProfile ELSE profiles[s]]

-----------------------------------------------------------------------------
(* _is_likely_nonsensical                                                  *)

common_short_words == {"yes", "no", "ok", "hi", "bye", "wow", "oh", "ah", "um", "uh", "you"}

AllChars(s, P(_)) == \A i \in 1..Len(s) : P(CharAt(s, i))
IsDot(c) == c = "."
IsLowerOrSpace(c) == IsLower(c) \/ IsSpace(c)
NotLetterNotSpace(c) == ~IsAlpha(c) /\ ~IsSpace(c)

\* ^[a-z]{1,3}\.{3,}$
LettersThenDots(s) ==
    \E k \in 1..3 :
        /\ Len(s) >= k + 3
        /\ AllChars(SubSeq(s, 1, k), IsLower)
        /\ AllChars(SubSeq(s, k + 1, Len(s)), IsDot)
\* ^[a-z\s]{1,10}\.$
ShortWithPeriod(s) ==
    /\ Len(s) >= 2 /\ Len(s) <= 11
    /\ CharAt(s, Len(s)) = "."
    /\ AllChars(SubSeq(s, 1, Len(s) - 1), IsLowerOrSpace)
\* ^[^a-zA-Z\s]*$
NoLetters(s) == AllChars(s, NotLetterNotSpace)
\* ^[a-z]\s[a-z]\s[a-z](\s[a-z])*$
SingleLetters(s) ==
    /\ Len(s) >= 5 /\ Len(s) % 2 = 1
    /\ \A i \in 1..Len(s) :
          IF i % 2 = 1 THEN IsLower(CharAt(s, i)) ELSE IsSpace(CharAt(s, i))

nonsense_patterns(s) ==
    LettersThenDots(s) \/ ShortWithPeriod(s) \/ NoLetters(s) \/ SingleLetters(s)

CountOf(words, w) == Cardinality({i \in 1..Len(words) : words[i] = w})

_is_likely_nonsensical(text) ==
    LET text_lower == Strip(Lower(text))
        words == Split(text_lower)
        unique_words == {words[i] : i \in 1..Len(words)}
        non_alpha_count ==
            Cardinality({i \in 1..Len(text) : NotLetterNotSpace(CharAt(text, i))})
    IN  \/ Len(words) = 1 /\ Len(text_lower) < 4 /\ text_lower \notin common_short_words
        \/ /\ Len(words) >= 3
           /\ \/ Cardinality(unique_words) <= 2 /\ Len(words) >= 4
              \/ /\ Cardinality(unique_words) <= 3 /\ Len(words) >= 6
                 /\ \E w \in unique_words : CountOf(words, w) >= 3
        \/ nonsense_patterns(text_lower)
        \/ Len(text) > 0 /\ 2 * non_alpha_count > Len(text)

-----------------------------------------------------------------------------
(* _normalize_text_for_classification                                      *)

transcription_fixes == <<
    <<"of the past", "over the past">>, <<"of my", "over my">>,
    <<"of time", "over time">>, <<"thru", "through">>, <<"u", "you">>,
    <<"ur", "your">>, <<"cuz", "because">> >>

tense_normalizations == <<
    <<"realized", "realize">>, <<"learned", "learn">>, <<"understood", "understand">>,
    <<"recognized", "recognize">>, <<"discovered", "discover">>, <<"found", "find">>,
    <<"thought", "think">>, <<"felt", "feel">>, <<"saw", "see">>, <<"knew", "know">> >>

\* The first n substitutions of a table applied one after another, each to
\* the finished result of the one before.
RECURSIVE ApplySubs(_, _, _)
ApplySubs(subs, n, text) ==
    IF n = 0 THEN text
    ELSE ReSub(subs[n][1], subs[n][2], ApplySubs(subs, n - 1, text))

\* The characters lo..hi of the text with every run of whitespace turned
\* into one space, built by halving.
RECURSIVE CollapseRange(_, _, _)
CollapseRange(text, lo, hi) ==
    IF lo > hi THEN ""
    ELSE IF lo = hi
    THEN IF ~IsSpace(CharAt(text, lo)) THEN CharAt(text, lo)
         ELSE IF lo > 1 /\ IsSpace(CharAt(text, lo - 1)) THEN ""
         ELSE " "
    ELSE CollapseRange(text, lo, (lo + hi) \div 2)
            \o CollapseRange(text, (lo + hi) \div 2 + 1, hi)

\* re.sub(r'\s+', ' ', text)
CollapseSpaces(text) == CollapseRange(text, 1, Len(text))

_normalize_text_for_classification(text) ==
    Strip(CollapseSpaces(
        ApplySubs(tense_normalizations, Len(tense_normalizations),
                  ApplySubs(transcription_fixes, Len(transcription_fixes),
                            Lower(text)))))

-----------------------------------------------------------------------------
(* classify_emotion                                                        *)

\* ClassificationResult; the explanation text and the timestamp are not
\* modelled.
ClassificationResult(category, confidence, score, matched_patterns) ==
    [category |-> category, confidence |-> confidence, score |-> score,
     matched_patterns |-> matched_patterns]

\* The length pre-check: the result for a text of fewer than 3 characters.
TooShortResult(sentiment_score) ==
    ClassificationResult(REFLECTIVE_NEUTRAL, Tenths(1), Zero, <<>>)

NonsensicalResult(sentiment_score) ==
    ClassificationResult(REFLECTIVE_NEUTRAL, Tenths(2), sentiment_score, <<>>)

\* No pattern fired: the base sentiment sets the scores.
\* The sentiment fallback applied whether or not a pattern matched.
NoEvidenceFallbackAlways(category_scores, sentiment_score) ==
    IF RLess(sentiment_score, Rat(-5, 10))
    THEN [category_scores EXCEPT ![SORROW] = Tenths(8),
                                 ![REFLECTIVE_NEUTRAL] = Tenths(2)]
    ELSE IF RLess(Tenths(5), sentiment_score)
    THEN [category_scores EXCEPT ![HOPE] = Tenths(8),
                                 ![REFLECTIVE_NEUTRAL] = Tenths(2)]
    ELSE [category_scores EXCEPT ![REFLECTIVE_NEUTRAL] = One]

\* The sentiment fallback with the thresholds -0.5 and 0.5 included.
NoEvidenceFallbackInclusive(category_scores, sentiment_score) ==
    IF TotalAbs(category_scores) = Zero
    THEN IF RLeq(sentiment_score, Rat(-5, 10))
         THEN [category_scores EXCEPT ![SORROW] = Tenths(8),
                                      ![REFLECTIVE_NEUTRAL] = Tenths(2)]
         ELSE IF RLeq(Tenths(5), sentiment_score)
         THEN [category_scores EXCEPT ![HOPE] = Tenths(8),
                                      ![REFLECTIVE_NEUTRAL] = Tenths(2)]
         ELSE [category_scores EXCEPT ![REFLECTIVE_NEUTRAL] = One]
    ELSE category_scores

NoEvidenceFallback(category_scores, sentiment_score) ==
    IF TotalAbs(category_scores) = Zero
    THEN IF RLess(sentiment_score, Rat(-5, 10))
         THEN [category_scores EXCEPT ![SORROW] = Tenths(8),
                                      ![REFLECTIVE_NEUTRAL] = Tenths(2)]
         ELSE IF RLess(Tenths(5), sentiment_score)
         THEN [category_scores EXCEPT ![HOPE] = Tenths(8),
                                      ![REFLECTIVE_NEUTRAL] = Tenths(2)]
         ELSE [category_scores EXCEPT ![REFLECTIVE_NEUTRAL] = One]
    ELSE category_scores

ContainsAny(text, words) == \E w \in words : Contains(text, w)

AmbivalentOverride(category_scores, text_lower) ==
    IF Contains(text_lower, "both")
       /\ (Contains(text_lower, "and") \/ Contains(text_lower, "&"))
    THEN LET ambivalent_boost ==
                IF ContainsAny(text_lower, {"adventure", "mistake", "terrible", "wonderful"})
                THEN Tenths(8) ELSE Tenths(5)
         IN  [category_scores EXCEPT ![AMBIVALENT] = RAdd(@, ambivalent_boost)]
    ELSE category_scores

TransformativeOverride(category_scores, text_lower) ==
    IF ContainsAny(text_lower, {"death", "taught", "showed", "made me", "forced me"})
    THEN [category_scores EXCEPT ![TRANSFORMATIVE] = RAdd(@, Tenths(6))]
    ELSE category_scores

ReflectiveOverride(category_scores, text_lower) ==
    IF Contains(text_lower, "questioning")
       \/ (Contains(text_lower, "find myself")
           /\ ContainsAny(text_lower, {"questioning", "thinking", "wondering"}))
    THEN [category_scores EXCEPT ![REFLECTIVE_NEUTRAL] = RAdd(@, Tenths(7))]
    ELSE category_scores

\* Redaction markers are looked for in the caller's text, not the normalized one.
FilteredContent(category_scores, text, sentiment_score) ==
    IF Contains(text, "***") \/ Contains(text, "*")
    THEN IF RLess(sentiment_score, Rat(-3, 10))
         THEN [category_scores EXCEPT ![SORROW] = RAdd(@, Tenths(9)),
                                      ![HOPE] = RMul(@, Tenths(1))]
         ELSE [category_scores EXCEPT ![REFLECTIVE_NEUTRAL] = RAdd(@, Tenths(8)),
                                      ![HOPE] = RMul(@, Tenths(2))]
    ELSE category_scores

\* The sentiment influence with thresholds of -0.5 and 0.5.
SentimentInfluenceAtHalf(category_scores, sentiment_score) ==
    IF RLess(sentiment_score, Rat(-5, 10))
    THEN [category_scores EXCEPT ![SORROW] = RMul(@, Tenths(13)),
                                 ![HOPE] = RMul(@, Tenths(7))]
    ELSE IF RLess(Tenths(5), sentiment_score)
    THEN [category_scores EXCEPT ![HOPE] = RMul(@, Tenths(13)),
                                 ![SORROW] = RMul(@, Tenths(7))]
    ELSE category_scores

SentimentInfluence(category_scores, sentiment_score) ==
    IF RLess(sentiment_score, Rat(-7, 10))
    THEN [category_scores EXCEPT ![SORROW] = RMul(@, Tenths(13)),
                                 ![HOPE] = RMul(@, Tenths(7))]
    ELSE IF RLess(Tenths(7), sentiment_score)
    THEN [category_scores EXCEPT ![HOPE] = RMul(@, Tenths(13)),
                                 ![SORROW] = RMul(@, Tenths(7))]
    ELSE category_scores

ApplyCalibration(category_scores, calibration) ==
    [c \in Categories |-> RMul(category_scores[c], calibration[c])]

\* category_scores.values(), in the dict's (declaration) order.
Values(category_scores) ==
    <<category_scores[HOPE], category_scores[SORROW],
      category_scores[TRANSFORMATIVE], category_scores[AMBIVALENT],
      category_scores[REFLECTIVE_NEUTRAL]>>

\* The position max() returns, found as max() finds it: a scan from the
\* left that moves on only to a strictly greater value; the positions in
\* `skip` are left out.
RECURSIVE ScanMax(_, _, _, _)
ScanMax(values, i, best, skip) ==
    IF i > Len(values) THEN best
    ELSE IF i \in skip THEN ScanMax(values, i + 1, best, skip)
    ELSE IF best = 0 \/ RLess(values[best], values[i])
    THEN ScanMax(values, i + 1, i, skip)
    ELSE ScanMax(values, i + 1, best, skip)

\* max() returning the last of the greatest values instead of the first.
LastMax(values) ==
    CHOOSE i \in 1..Len(values) :
        /\ \A j \in 1..Len(values) : RLeq(values[j], values[i])
        /\ \A j \in (i + 1)..Len(values) : RLess(values[j], values[i])

FirstMax(values) == ScanMax(values, 1, 0, {})

\* max(category_scores.items(), key=lambda x: x[1])[0]
MaxCategory(category_scores) == EmotionCategory[FirstMax(Values(category_scores))]

\* sorted(values, reverse=True)[1]: the largest value once one occurrence of
\* the maximum is set aside.
SecondHighest(values) == values[ScanMax(values, 1, 0, {FirstMax(values)})]

\* The confidence without its clamps.
ConfidenceUnclamped(values) ==
    LET max_score == values[FirstMax(values)]
        margin == RSub(max_score, SecondHighest(values))
        confidence == RAdd(max_score, RMul(margin, Tenths(3)))
    IN  IF RLess(One, max_score) THEN RAdd(confidence, Tenths(2)) ELSE confidence

\* The confidence from the final scores, given as their list of values.
Confidence(values) ==
    LET max_score == values[FirstMax(values)]
        margin == RSub(max_score, SecondHighest(values))
        confidence ==
            RMin(Hundredths(95), RMax(Tenths(1), RAdd(max_score, RMul(margin, Tenths(3)))))
    IN  IF RLess(One, max_score)
        THEN RMin(Hundredths(98), RAdd(confidence, Tenths(2)))
        ELSE confidence

\* The pre-checks without the length check.
BranchNoLengthCheck(text) ==
    IF _is_likely_nonsensical(Strip(text)) THEN "nonsensical" ELSE "main"

\* The pre-checks: which branch a text takes.
Branch(text) ==
    LET text_clean == Strip(text)
    IN  IF Len(text_clean) < 3 THEN "too_short"
        ELSE IF _is_likely_nonsensical(text_clean) THEN "nonsensical"
        ELSE "main"

\* The part of the main path that reads the text alone: normalization,
\* pattern detection and the pattern scores.
Detected(text_lower, matches) ==
    [text_lower |-> text_lower,
     matches |-> matches,
     category_scores |-> _calculate_category_scores(matches)]

Detect(text) ==
    Detected(Lower(_normalize_text_for_classification(Strip(text))),
             _detect_patterns(_normalize_text_for_classification(Strip(text))))

\* The scores before the per-speaker steps: the pattern scores, the fallback,
\* the overrides, the redaction rule and the sentiment influence.
BaseScores(detected, text, sentiment_score) ==
    LET s1 == NoEvidenceFallback(detected.category_scores, sentiment_score)
        s2 == AmbivalentOverride(s1, detected.text_lower)
        s3 == TransformativeOverride(s2, detected.text_lower)
        s4 == ReflectiveOverride(s3, detected.text_lower)
        s5 == FilteredContent(s4, text, sentiment_score)
    IN  [matches |-> detected.matches,
         scores |-> SentimentInfluence(s5, sentiment_score)]

\* The main path with the arc step taken whether or not a context window
\* was passed.
MainPathAlwaysArc(base, sentiment_score, speaker_id, context_window, profiles, arcs) ==
    LET profiles1 == _get_speaker_calibration(profiles, speaker_id)
        calibrated == ApplyCalibration(base.scores, profiles1[speaker_id])
        arc == _detect_narrative_arc(arcs, speaker_id, MaxCategory(calibrated))
        values == Values([calibrated EXCEPT ![TRANSFORMATIVE] = RAdd(@, arc.score)])
    IN  [result |-> ClassificationResult(EmotionCategory[FirstMax(values)],
                                         Confidence(values),
                                         sentiment_score, base.matches),
         speaker_profiles |-> profiles1,
         narrative_arcs |-> arc.arcs]

\* The main path from the speaker calibration on.
MainPath(base, sentiment_score, speaker_id, context_window, profiles, arcs) ==
    LET profiles1 == _get_speaker_calibration(profiles, speaker_id)
        calibrated == ApplyCalibration(base.scores, profiles1[speaker_id])
        arc == IF context_window # <<>>
               THEN _detect_narrative_arc(arcs, speaker_id, MaxCategory(calibrated))
               ELSE [arcs |-> arcs, score |-> Zero]
        category_scores ==
            [calibrated EXCEPT ![TRANSFORMATIVE] = RAdd(@, arc.score)]
        values == Values(category_scores)
    IN  [result |-> ClassificationResult(EmotionCategory[FirstMax(values)],
                                         Confidence(values),
                                         sentiment_score, base.matches),
         speaker_profiles |-> profiles1,
         narrative_arcs |-> arc.arcs]

\* classify_emotion with the speaker's profile created before the pre-checks.
ClassifyWithProfileFirst(branch, base, sentiment_score, speaker_id, context_window, profiles, arcs) ==
    IF branch = "too_short"
    THEN [result |-> TooShortResult(sentiment_score),
          speaker_profiles |-> _get_speaker_calibration(profiles, speaker_id),
          narrative_arcs |-> arcs]
    ELSE IF branch = "nonsensical"
    THEN [result |-> NonsensicalResult(sentiment_score),
          speaker_profiles |-> _get_speaker_calibration(profiles, speaker_id),
          narrative_arcs |-> arcs]
    ELSE MainPath(base, sentiment_score, speaker_id, context_window, profiles, arcs)

\* classify_emotion on the stores (profiles, arcs), given the branch the text
\* takes and its scores before the per-speaker steps: the result returned and
\* the stores after the call.
ClassifyWith(branch, base, sentiment_score, speaker_id, context_window, profiles, arcs) ==
    IF branch = "too_short"
    THEN [result |-> TooShortResult(sentiment_score),
          speaker_profiles |-> profiles, narrative_arcs |-> arcs]
    ELSE IF branch = "nonsensical"
    THEN [result |-> NonsensicalResult(sentiment_score),
          speaker_profiles |-> profiles, narrative_arcs |-> arcs]
    ELSE MainPath(base, sentiment_score, speaker_id, context_window, profiles, arcs)

classify_emotion(text, sentiment_score, speaker_id, context_window, profiles, arcs) ==
    ClassifyWith(Branch(text), BaseScores(Detect(text), text, sentiment_score),
                 sentiment_score, speaker_id, context_window, profiles, arcs)

\* update_speaker_profile that creates the profile and drops the feedback.
UpdateSpeakerProfileDropped(profiles, speaker_id, category, accuracy) ==
    _get_speaker_calibration(profiles, speaker_id)

\* update_speaker_profile adding accuracy - 0.5 to the factor.
UpdateSpeakerProfileAdditive(profiles, speaker_id, category, accuracy) ==
    LET profiles1 == _get_speaker_calibration(profiles, speaker_id)
    IN  [profiles1 EXCEPT ![speaker_id][category] =
            RAdd(@, RSub(accuracy, Tenths(5)))]

\* update_speaker_profile multiplying every factor of the speaker.
UpdateSpeakerProfileAllCategories(profiles, speaker_id, category, accuracy) ==
    [s \in (DOMAIN profiles) \cup {speaker_id} |->
        IF s = speaker_id
        THEN [c \in Categories |->
                RMul(_get_speaker_calibration(profiles, speaker_id)[s][c],
                     RAdd(One, RSub(accuracy, Tenths(5))))]
        ELSE profiles[s]]

\* update_speaker_profile on the store: the store after the call.
update_speaker_profile(profiles, speaker_id, category, accuracy) ==
    LET profiles1 == _get_speaker_calibration(profiles, speaker_id)
    IN  [profiles1 EXCEPT ![speaker_id][category] =
            RMul(@, RAdd(One, RSub(accuracy, Tenths(5))))]

\* ---------------------------------------------------------------------------
\* The classifier as a state machine: one AdvancedHopeSorrowClassifier object,
\* its two stores, and a log of the calls made on it.

\* Texts of the stateful specification.
SpecTexts ==
    {"I hope for a better future.", "healing but wrong", "happy sad"}

\* Texts of the single-call specification: each branch of the pre-checks,
\* each override, balanced and unbalanced hope and sorrow, negation and
\* intensifiers, and text without any pattern.
WideTexts ==
    {"", "a", " a ", "  hi  ", "ok.", "...", "x y z", "12345",
     "the cat sat on the mat", "I wonder why", "she taught me",
     "I hope for a better future.", "healing but wrong", "I learned so much",
     "happy sad", "Happy SAD", "very happy very sad", "hope better lost wrong",
     "hope pain", "not happy not sad", "happy sad healing", "happy *** sad",
     "both happy and sad", "happy sad both & more", "happy sad death",
     "happy sad questioning", "I feel so lost"}

\* A text without any pattern match, and the same text with one phrase added
\* that matches one pattern of weight 0.9 or more: one text per category, and
\* one whose match stands next to a negation.
ZeroEvidenceText == "the cat sat on the mat"

EvidenceTexts ==
    {"the happy cat sat on the mat", "the sad cat sat on the mat",
     "the healing cat sat on the mat", "the conflicted cat sat on the mat",
     "the cat sat on what really matters", "the cat sat on the mat, not happy"}

\* Texts of the arc specification: for a speaker with factors of 1.0 their
\* provisional leaders are hope (with a share of 0.6, next to
\* reflective_neutral), sorrow and transformative.
ArcTexts ==
    {"happy truth", "I feel so lost", "healing but wrong"}

\* Texts of the rules specification, each chosen for one rule of
\* classify_emotion: the context modifier (a marker before, after, inside
\* and more than 20 characters away from the match, and as part of a longer
\* word), matches that cancel, a redaction marker, the repetition rules of
\* the nonsensical check on both sides of their thresholds, texts without
\* any match (one of them with a redaction marker), and equal top scores.
RuleTexts ==
    {"", "a", "...",
     "happy", "very happy", "not very happy", "happy, really", "happy? never",
     "never again", "what really matters", "another happy day",
     "I am not sure that all of this makes me happy",
     "happy is the cat on the mat and it is not happy",
     "happy sad", "happy *** sad", "not happy not sad",
     "I hope for a better future.", "the cat sat on the mat",
     "the cat *** on the mat", "la la la", "la la la la", "go go stop", "tick tock tick tock",
     "tick tock la tick tock la", "tick tock tick tock la tick"}

\* Texts of the frame specification: a too-short text, a nonsensical one and
\* one that takes the main path.
FrameTexts == {"", "la la la la", "healing but wrong"}

AllTexts ==
    SpecTexts \cup WideTexts \cup EvidenceTexts \cup ArcTexts \cup RuleTexts
        \cup FrameTexts

\* What the text-only part of classify_emotion computes, once per text.
branch_of == [t \in AllTexts |-> Branch(t)]

detected_in ==
    [t \in AllTexts |->
        IF Branch(t) = "main" THEN Detect(t)
        ELSE [text_lower |-> "", matches |-> <<>>,
              category_scores |-> [c \in Categories |-> Zero]]]


SpecSentiments == {Hundredths(50)}

WideSentiments ==
    {Hundredths(-100), Hundredths(-70), Hundredths(-60), Hundredths(-40),
     Hundredths(0), Hundredths(50), Hundredths(60), Hundredths(80)}

\* Base sentiments of the rules specification: the thresholds -0.7, -0.5,
\* 0.5 and 0.7 themselves and values on either side of them and of -0.3.
RuleSentiments ==
    {Hundredths(-80), Hundredths(-70), Hundredths(-60), Hundredths(-50),
     Hundredths(-40), Hundredths(0), Hundredths(50), Hundredths(60),
     Hundredths(70), Hundredths(80)}

AllSentiments == SpecSentiments \cup WideSentiments \cup RuleSentiments

\* The scores before the per-speaker steps, once per text and base sentiment.
base_scores ==
    [t \in AllTexts |->
        [s \in AllSentiments |-> BaseScores(detected_in[t], t, s)]]

\* classify_emotion on the stores, reading the text-only parts from the tables.
ClassifyCall(text, sentiment_score, speaker_id, context_window, profiles, arcs) ==
    ClassifyWith(branch_of[text], base_scores[text][sentiment_score],
                 sentiment_score, speaker_id, context_window, profiles, arcs)

SpecSpeakers == {"alice", "bob"}

WideSpeakers == {"alice"}

\* No context window (None or an empty list), and a non-empty one.
ContextWindows == {<<>>, <<"earlier words">>}

SpecAccuracies == {Tenths(2), Tenths(5), Tenths(8)}

WideAccuracies == {Tenths(0), Tenths(8)}

\* Calls made on the object in the stateful specification.
MaxCalls == 3

\* Feedback calls made on the object.
MaxUpdates == 1

\* Entries the earlier calls of the single-call specification leave in a
\* speaker's arc log.
MaxArcLen == 1

ClassifyEntry(text, sentiment_score, speaker_id, context_window, result) ==
    [op |-> "classify_emotion", text |-> text, sentiment_score |-> sentiment_score,
     speaker_id |-> speaker_id, context_window |-> context_window,
     result |-> result]

UpdateEntry(speaker_id, category, accuracy) ==
    [op |-> "update_speaker_profile", speaker_id |-> speaker_id,
     category |-> category, accuracy |-> accuracy]

\* The log keeps the last `depth` calls.
Remember(log, entry, depth) ==
    LET all == Append(log, entry)
    IN  IF Len(all) > depth THEN SubSeq(all, Len(all) - depth + 1, Len(all))
        ELSE all

ArcLen(speaker_id) ==
    IF speaker_id \in DOMAIN narrative_arcs THEN Len(narrative_arcs[speaker_id])
    ELSE 0

WEIGHTED_AVERAGE == "weighted_average"
HIGHEST_CONFIDENCE == "highest_confidence"
TRANSFORMER_PRIMARY == "transformer_primary"
LLM_PRIMARY == "llm_primary"
CONSENSUS == "consensus"

CombinationStrategy ==
    {WEIGHTED_AVERAGE, HIGHEST_CONFIDENCE, TRANSFORMER_PRIMARY, LLM_PRIMARY,
     CONSENSUS}

\* Threads that call into the one classifier object at the same time.
MaxThreads == 2

Threads == 1..MaxThreads

\* No thread has made its call yet.
NoThreads == [t \in Threads |-> [pc |-> "idle"]]

\* Which thread's assignment created the dict or list a speaker's key holds.
NoObjects == [profiles |-> <<>>, arcs |-> <<>>]

\* No combination has been made yet.
NoCombination == [made |-> FALSE]

\* A fresh classifier with empty stores, next to a default combined analyzer.
\* _combined_analyzer = None
NoAnalyzer == [is_none |-> TRUE]

Init ==
    /\ speaker_profiles = <<>>
    /\ narrative_arcs = <<>>
    /\ history = <<>>
    /\ nupdates = 0
    /\ strategy = WEIGHTED_AVERAGE
    /\ combined = NoCombination
    /\ threads = NoThreads
    /\ objects = NoObjects
    /\ _combined_analyzer = NoAnalyzer

\* One classify_emotion call.
Classify(text, sentiment_score, speaker_id, context_window, depth) ==
    \E out \in {ClassifyCall(text, sentiment_score, speaker_id, context_window,
                            speaker_profiles, narrative_arcs)} :
        /\ speaker_profiles' = out.speaker_profiles
        /\ narrative_arcs' = out.narrative_arcs
        /\ history' = Remember(history,
                               ClassifyEntry(text, sentiment_score, speaker_id,
                                             context_window, out.result), depth)
        /\ UNCHANGED <<nupdates, strategy, _combined_analyzer, combined, threads, objects>>

\* One update_speaker_profile call.
Update(speaker_id, category, accuracy, depth) ==
    /\ speaker_profiles' =
           update_speaker_profile(speaker_profiles, speaker_id, category, accuracy)
    /\ nupdates' = nupdates + 1
    /\ history' = Remember(history, UpdateEntry(speaker_id, category, accuracy), depth)
    /\ UNCHANGED <<narrative_arcs, strategy, _combined_analyzer, combined, threads, objects>>

ClassifyEmotion ==
    /\ Len(history) < MaxCalls
    /\ \E text \in SpecTexts, sentiment_score \in SpecSentiments,
          speaker_id \in SpecSpeakers, context_window \in ContextWindows :
           Classify(text, sentiment_score, speaker_id, context_window, MaxCalls)

UpdateSpeakerProfile ==
    /\ Len(history) < MaxCalls
    /\ nupdates < MaxUpdates
    /\ \E speaker_id \in SpecSpeakers, category \in Categories,
          accuracy \in SpecAccuracies :
           Update(speaker_id, category, accuracy, MaxCalls)

Next == ClassifyEmotion \/ UpdateSpeakerProfile

Spec == Init /\ [][Next]_vars

\* Feedback calls of the feedback specification.
MaxFeedback == 3

\* Categories that receive feedback in the feedback specification.
FeedbackCategories == {HOPE, SORROW}

\* The feedback specification: update_speaker_profile calls only, all logged.
Feedback ==
    /\ nupdates < MaxFeedback
    /\ \E speaker_id \in SpecSpeakers, category \in FeedbackCategories,
          accuracy \in SpecAccuracies :
           Update(speaker_id, category, accuracy, MaxFeedback)

NextFeedback == Feedback

SpecFeedback == Init /\ [][NextFeedback]_vars

\* The evidence specification: one call on a fresh classifier, of the
\* zero-evidence text or of one of its extensions.
ClassifyEvidence ==
    /\ history = <<>>
    /\ \E text \in EvidenceTexts \cup {ZeroEvidenceText},
          sentiment_score \in WideSentiments, speaker_id \in WideSpeakers,
          context_window \in ContextWindows :
           Classify(text, sentiment_score, speaker_id, context_window, 1)

NextEvidence == ClassifyEvidence

SpecEvidence == Init /\ [][NextEvidence]_vars

\* Calls with a context window made for one speaker in the arc specification.
MaxArcCalls == 6

\* The arc specification: calls with a context window for one speaker, whose
\* log grows past the five entries _detect_narrative_arc reads, and feedback
\* that halves the speaker's transformative factor.  The log of calls holds
\* the last call when it was a classify_emotion call.
ClassifyInContext ==
    \E text \in ArcTexts, sentiment_score \in SpecSentiments,
       speaker_id \in WideSpeakers :
        /\ ArcLen(speaker_id) < MaxArcCalls
        /\ Classify(text, sentiment_score, speaker_id, <<"earlier words">>, 1)

HalveTransformative ==
    /\ nupdates < MaxUpdates
    /\ \E speaker_id \in WideSpeakers :
           Update(speaker_id, TRANSFORMATIVE, Tenths(0), 0)

NextArc == ClassifyInContext \/ HalveTransformative

SpecArc == Init /\ [][NextArc]_vars

\* The frame specification: calls of both operations for two speakers, all
\* logged, with degenerate texts among the classify_emotion calls.
FrameClassify ==
    /\ Len(history) < MaxFeedback
    /\ \E text \in FrameTexts, sentiment_score \in SpecSentiments,
          speaker_id \in SpecSpeakers, context_window \in ContextWindows :
           Classify(text, sentiment_score, speaker_id, context_window, MaxFeedback)

FrameUpdate ==
    /\ Len(history) < MaxFeedback
    /\ \E speaker_id \in SpecSpeakers, category \in {HOPE, TRANSFORMATIVE} :
           Update(speaker_id, category, Tenths(8), MaxFeedback)

NextFrame == FrameClassify \/ FrameUpdate

SpecFrame == Init /\ [][NextFrame]_vars

\* The rules specification: one observed call of the rule texts, on stores
\* that earlier feedback and earlier calls with a context window have shaped.
\* The earlier calls are not logged.
RuleFeedback ==
    /\ history = <<>>
    /\ nupdates < MaxUpdates
    /\ \E speaker_id \in WideSpeakers, category \in {HOPE, AMBIVALENT} :
           Update(speaker_id, category, Tenths(0), 0)

RuleEarlier ==
    /\ history = <<>>
    /\ \E text \in {"healing but wrong", "I feel so lost"},
          speaker_id \in WideSpeakers :
           /\ ArcLen(speaker_id) < MaxArcLen
           /\ Classify(text, Hundredths(50), speaker_id, <<"earlier words">>, 0)

ClassifyRule ==
    /\ history = <<>>
    /\ \E text \in RuleTexts, sentiment_score \in RuleSentiments,
          speaker_id \in WideSpeakers, context_window \in ContextWindows :
           Classify(text, sentiment_score, speaker_id, context_window, 1)

NextRules == RuleFeedback \/ RuleEarlier \/ ClassifyRule

SpecRules == Init /\ [][NextRules]_vars

\* The single-call specification: one observed call, of every text and base
\* sentiment, on stores that earlier calls have shaped.  The earlier calls are
\* not logged; the log holds the observed call, after which the behaviour
\* ends.
EarlierClassify ==
    /\ history = <<>>
    /\ \E text \in WideTexts, sentiment_score \in SpecSentiments,
          speaker_id \in WideSpeakers, context_window \in ContextWindows :
           /\ ArcLen(speaker_id) < MaxArcLen
           /\ Classify(text, sentiment_score, speaker_id, context_window, 0)

EarlierUpdate ==
    /\ history = <<>>
    /\ nupdates < MaxUpdates
    /\ \E speaker_id \in WideSpeakers, category \in Categories,
          accuracy \in WideAccuracies :
           Update(speaker_id, category, accuracy, 0)

ClassifyAny ==
    /\ history = <<>>
    /\ \E text \in WideTexts, sentiment_score \in WideSentiments,
          speaker_id \in WideSpeakers, context_window \in ContextWindows :
           Classify(text, sentiment_score, speaker_id, context_window, 1)

NextCall == EarlierClassify \/ EarlierUpdate \/ ClassifyAny

SpecCall == Init /\ [][NextCall]_vars

-----------------------------------------------------------------------------
(* CombinedSentimentAnalyzer                                               *)

\* self.weights
weights == [transformer |-> Tenths(6), llm |-> Tenths(4)]

\* A source result: the fields of a transformer or LLM analysis that the
\* combination reads.
SourceResult(category, score, confidence) ==
    [category |-> category, score |-> score, confidence |-> confidence]

\* d[key] = value on a copy of the dict d.
SetItem(d, key, value) ==
    [k \in DOMAIN d \cup {key} |-> IF k = key THEN value ELSE d[k]]

_score_to_label(score) ==
    IF RLeq(Tenths(6), score) THEN "very_positive"
    ELSE IF RLeq(Tenths(2), score) THEN "positive"
    ELSE IF RLeq(Rat(-1, 10), score) THEN "neutral"
    ELSE IF RLeq(Rat(-3, 10), score) THEN "negative"
    ELSE "very_negative"

\* The weighted average with the tie on confidence going to the LLM.
WeightedAverageTieToLlm(transformer_result, llm_result) ==
    LET combined_score == RAdd(RMul(transformer_result.score, weights.transformer),
                               RMul(llm_result.score, weights.llm))
        combined_confidence == RAdd(RMul(transformer_result.confidence, weights.transformer),
                                    RMul(llm_result.confidence, weights.llm))
        from_transformer == RLess(llm_result.confidence, transformer_result.confidence)
    IN  [score |-> combined_score,
         confidence |-> combined_confidence,
         category |-> IF from_transformer THEN transformer_result.category
                      ELSE llm_result.category,
         intensity |-> RAbs(combined_score),
         label |-> _score_to_label(combined_score),
         analysis_source |-> "combined",
         combination_strategy |-> "weighted_average",
         primary_source |-> IF from_transformer THEN "transformer" ELSE "llm"]

_weighted_average_combination(transformer_result, llm_result) ==
    LET t_weight == weights.transformer
        l_weight == weights.llm
        combined_score == RAdd(RMul(transformer_result.score, t_weight),
                               RMul(llm_result.score, l_weight))
        combined_confidence == RAdd(RMul(transformer_result.confidence, t_weight),
                                    RMul(llm_result.confidence, l_weight))
        from_transformer == RLeq(llm_result.confidence, transformer_result.confidence)
    IN  [score |-> combined_score,
         confidence |-> combined_confidence,
         category |-> IF from_transformer THEN transformer_result.category
                      ELSE llm_result.category,
         intensity |-> RAbs(combined_score),
         label |-> _score_to_label(combined_score),
         analysis_source |-> "combined",
         combination_strategy |-> "weighted_average",
         primary_source |-> IF from_transformer THEN "transformer" ELSE "llm"]

\* The highest-confidence choice that keeps the transformer's score whatever
\* source it adopts.
HighestConfidenceBlended(transformer_result, llm_result) ==
    LET result ==
            IF RLeq(llm_result.confidence, transformer_result.confidence)
            THEN SetItem(transformer_result, "analysis_source", "transformer_confident")
            ELSE SetItem([llm_result EXCEPT !.score = transformer_result.score],
                         "analysis_source", "llm_confident")
    IN  SetItem(result, "combination_strategy", "highest_confidence")

_highest_confidence_combination(transformer_result, llm_result) ==
    LET result ==
            IF RLeq(llm_result.confidence, transformer_result.confidence)
            THEN SetItem(transformer_result, "analysis_source", "transformer_confident")
            ELSE SetItem(llm_result, "analysis_source", "llm_confident")
    IN  SetItem(result, "combination_strategy", "highest_confidence")

\* The consensus combination with the agreement boost left uncapped.
ConsensusUncapped(transformer_result, llm_result) ==
    IF transformer_result.category = llm_result.category
    THEN LET combined_score ==
                 RDiv(RAdd(transformer_result.score, llm_result.score), Rat(2, 1))
         IN  [score |-> combined_score,
              confidence |-> RAdd(RDiv(RAdd(transformer_result.confidence,
                                            llm_result.confidence), Rat(2, 1)),
                                  Tenths(1)),
              category |-> transformer_result.category,
              intensity |-> RAbs(combined_score),
              label |-> _score_to_label(combined_score),
              analysis_source |-> "consensus",
              combination_strategy |-> "consensus",
              agreement |-> TRUE]
    ELSE SetItem([_weighted_average_combination(transformer_result, llm_result)
                     EXCEPT !.confidence = RMul(@, Tenths(8)),
                            !.combination_strategy = "consensus_fallback"],
                 "agreement", FALSE)

\* The consensus combination that leaves the confidence as it is when the
\* sources disagree.
ConsensusNoPenalty(transformer_result, llm_result) ==
    IF transformer_result.category = llm_result.category
    THEN LET combined_score ==
                 RDiv(RAdd(transformer_result.score, llm_result.score), Rat(2, 1))
         IN  [score |-> combined_score,
              confidence |-> RMin(Hundredths(95),
                                  RAdd(RDiv(RAdd(transformer_result.confidence,
                                                 llm_result.confidence), Rat(2, 1)),
                                       Tenths(1))),
              category |-> transformer_result.category,
              intensity |-> RAbs(combined_score),
              label |-> _score_to_label(combined_score),
              analysis_source |-> "consensus",
              combination_strategy |-> "consensus",
              agreement |-> TRUE]
    ELSE SetItem([_weighted_average_combination(transformer_result, llm_result)
                     EXCEPT !.combination_strategy = "consensus_fallback"],
                 "agreement", FALSE)

_consensus_combination(transformer_result, llm_result) ==
    IF transformer_result.category = llm_result.category
    THEN LET combined_score ==
                 RDiv(RAdd(transformer_result.score, llm_result.score), Rat(2, 1))
             combined_confidence ==
                 RMin(Hundredths(95),
                      RAdd(RDiv(RAdd(transformer_result.confidence,
                                     llm_result.confidence), Rat(2, 1)),
                           Tenths(1)))
         IN  [score |-> combined_score,
              confidence |-> combined_confidence,
              category |-> transformer_result.category,
              intensity |-> RAbs(combined_score),
              label |-> _score_to_label(combined_score),
              analysis_source |-> "consensus",
              combination_strategy |-> "consensus",
              agreement |-> TRUE]
    ELSE LET result == _weighted_average_combination(transformer_result, llm_result)
             reduced == [result EXCEPT !.confidence = RMul(@, Tenths(8)),
                                       !.combination_strategy = "consensus_fallback"]
         IN  SetItem(reduced, "agreement", FALSE)

\* The primary combination with the agreement boost left uncapped.
PrimaryUncapped(primary, other, tag) ==
    LET confidence ==
            IF primary.category = other.category
            THEN RAdd(primary.confidence, Tenths(1))
            ELSE RMul(primary.confidence, Tenths(9))
        result == [primary EXCEPT !.confidence = confidence]
    IN  SetItem(SetItem(result, "analysis_source", tag), "combination_strategy", tag)

\* The two primary strategies share their shape; `primary` is the result
\* that is copied and `tag` the name written into it.
PrimaryCombination(primary, other, tag) ==
    LET confidence ==
            IF primary.category = other.category
            THEN RMin(Hundredths(95), RAdd(primary.confidence, Tenths(1)))
            ELSE RMul(primary.confidence, Tenths(9))
        result == [primary EXCEPT !.confidence = confidence]
    IN  SetItem(SetItem(result, "analysis_source", tag), "combination_strategy", tag)

_transformer_primary_combination(transformer_result, llm_result) ==
    PrimaryCombination(transformer_result, llm_result, "transformer_primary")

_llm_primary_combination(transformer_result, llm_result) ==
    PrimaryCombination(llm_result, transformer_result, "llm_primary")

\* A combination that answers reflective_neutral when the sources disagree.
CombineUndecided(self_strategy, transformer_result, llm_result) ==
    IF transformer_result.category = llm_result.category
    THEN _weighted_average_combination(transformer_result, llm_result)
    ELSE [_weighted_average_combination(transformer_result, llm_result)
             EXCEPT !.category = REFLECTIVE_NEUTRAL]

_combine_analyses(self_strategy, transformer_result, llm_result) ==
    IF self_strategy = TRANSFORMER_PRIMARY
    THEN _transformer_primary_combination(transformer_result, llm_result)
    ELSE IF self_strategy = LLM_PRIMARY
    THEN _llm_primary_combination(transformer_result, llm_result)
    ELSE IF self_strategy = HIGHEST_CONFIDENCE
    THEN _highest_confidence_combination(transformer_result, llm_result)
    ELSE IF self_strategy = CONSENSUS
    THEN _consensus_combination(transformer_result, llm_result)
    ELSE _weighted_average_combination(transformer_result, llm_result)

\* The source results of the combination specification.
SourceCategories == {HOPE, SORROW}

SourceScores == {Rat(-1, 2), Tenths(7)}

SourceConfidences == {Zero, Tenths(5), Tenths(9), Hundredths(98), One}

SourceResults ==
    {SourceResult(category, score, confidence) :
        category \in SourceCategories, score \in SourceScores,
        confidence \in SourceConfidences}

\* An analyzer constructed with any of the strategies.
InitCombine ==
    /\ speaker_profiles = <<>>
    /\ narrative_arcs = <<>>
    /\ history = <<>>
    /\ nupdates = 0
    /\ strategy \in CombinationStrategy
    /\ combined = NoCombination
    /\ threads = NoThreads
    /\ objects = NoObjects
    /\ _combined_analyzer = NoAnalyzer

\* Both sources delivered a result and the analyzer combines them.
Combine ==
    \E transformer_result \in SourceResults, llm_result \in SourceResults :
        /\ combined' = [made |-> TRUE,
                        transformer_result |-> transformer_result,
                        llm_result |-> llm_result,
                        result |-> _combine_analyses(strategy, transformer_result,
                                                     llm_result)]
        /\ UNCHANGED <<speaker_profiles, narrative_arcs, history, nupdates, strategy, _combined_analyzer,
                       threads, objects>>

NextCombine == Combine

SpecCombine == InitCombine /\ [][NextCombine]_vars

\* analyze: the two source calls, the single-source fallback and the
\* metadata.  A source call either raises or returns a result.
RaisedCall == [raised |-> TRUE]

ReturnedCall(result) == [raised |-> FALSE, result |-> result]

\* llm_result = None
None == [is_none |-> TRUE]

_create_fallback_result == SourceResult(REFLECTIVE_NEUTRAL, Zero, Zero)

\* What LLMSentimentAnalyzer.analyze returns when its API request fails.
LlmErrorResult == SourceResult(REFLECTIVE_NEUTRAL, Zero, Zero)

\* The single-source branch with the boost applied at every confidence.
SingleSourceAlwaysBoosted(transformer_result) ==
    SetItem(SetItem([transformer_result EXCEPT
                        !.confidence = RMin(Hundredths(95), RMul(@, Rat(11, 10)))],
                    "analysis_source", "transformer_only"),
            "combination_strategy", "fallback")

\* The branch of analyze taken when llm_result is None.
SingleSource(transformer_result) ==
    SetItem(SetItem([transformer_result EXCEPT
                        !.confidence =
                            IF RLess(Tenths(6), @)
                            THEN RMin(Hundredths(95), RMul(@, Rat(11, 10)))
                            ELSE @],
                    "analysis_source", "transformer_only"),
            "combination_strategy", "fallback")

\* final_result before the metadata is added.
FinalResult(self_strategy, transformer_call, llm_result) ==
    IF llm_result = None THEN SingleSource(transformer_call.result)
    ELSE _combine_analyses(self_strategy, transformer_call.result, llm_result)

AddMetadata(final_result, transformer_result, llm_result) ==
    [k \in DOMAIN final_result \cup {"has_llm", "transformer_category",
                                     "llm_category", "confidence_sources"} |->
        IF k = "has_llm" THEN llm_result # None
        ELSE IF k = "transformer_category" THEN transformer_result.category
        ELSE IF k = "llm_category"
        THEN (IF llm_result # None THEN llm_result.category ELSE "None")
        ELSE IF k = "confidence_sources"
        THEN [transformer |-> transformer_result.confidence,
              llm |-> IF llm_result # None THEN llm_result.confidence ELSE None]
        ELSE final_result[k]]

\* analyze without the handler around the transformer call: the exception
\* reaches the caller.
AnalyzeUncaught(self_strategy, transformer_call, use_llm, llm_call) ==
    IF transformer_call.raised THEN RaisedCall
    ELSE ReturnedCall(
             AddMetadata(
                 FinalResult(self_strategy, transformer_call,
                             IF use_llm /\ ~llm_call.raised THEN llm_call.result
                             ELSE None),
                 transformer_call.result,
                 IF use_llm /\ ~llm_call.raised THEN llm_call.result ELSE None))

\* analyze, given what the two source calls do.  The transformer call is
\* always made; the LLM call is made when use_llm is set.
analyze(self_strategy, transformer_call, use_llm, llm_call) ==
    ReturnedCall(
        AddMetadata(
            FinalResult(self_strategy,
                        IF transformer_call.raised
                        THEN ReturnedCall(_create_fallback_result)
                        ELSE transformer_call,
                        IF use_llm /\ ~llm_call.raised THEN llm_call.result
                        ELSE None),
            IF transformer_call.raised THEN _create_fallback_result
            ELSE transformer_call.result,
            IF use_llm /\ ~llm_call.raised THEN llm_call.result ELSE None))

\* What the transformer call and the LLM call can do.
TransformerCalls == {RaisedCall} \cup {ReturnedCall(r) : r \in SourceResults}

LlmCalls ==
    {RaisedCall} \cup {ReturnedCall(r) : r \in SourceResults \cup {LlmErrorResult}}

\* The analyze call.  With use_llm unset the LLM call is not made.
Analyze ==
    \E transformer_call \in TransformerCalls, use_llm \in BOOLEAN,
       llm_call \in LlmCalls :
        /\ ~combined.made
        /\ use_llm \/ llm_call = RaisedCall
        /\ combined' = [made |-> TRUE,
                        transformer_call |-> transformer_call,
                        use_llm |-> use_llm,
                        llm_call |-> llm_call,
                        outcome |-> analyze(strategy, transformer_call, use_llm,
                                            llm_call)]
        /\ UNCHANGED <<speaker_profiles, narrative_arcs, history, nupdates, strategy, _combined_analyzer,
                       threads, objects>>

\* The classify_emotion call a source makes on its own classifier while
\* analyze waits for it.
ClassifyInSource ==
    /\ history = <<>>
    /\ ~combined.made
    /\ \E text \in WideTexts, sentiment_score \in SpecSentiments,
          speaker_id \in WideSpeakers, context_window \in ContextWindows :
           Classify(text, sentiment_score, speaker_id, context_window, 1)

NextAnalyze == Analyze \/ ClassifyInSource

SpecAnalyze == InitCombine /\ [][NextAnalyze]_vars

-----------------------------------------------------------------------------
(* The module-level analyzer of combined_analyzer.py                       *)

\* CombinedSentimentAnalyzer(strategy): a new object, known by the number of
\* the construction that made it, with its self.strategy.
CombinedSentimentAnalyzer(id, self_strategy) == [id |-> id, strategy |-> self_strategy]

\* get_combined_analyzer constructing a new analyzer whenever the strategy
\* asked for is not the one of the analyzer it holds.
GetCombinedAnalyzerPerStrategy(analyzer, strategy_arg) ==
    IF analyzer = NoAnalyzer THEN CombinedSentimentAnalyzer(1, strategy_arg)
    ELSE IF analyzer.strategy # strategy_arg
    THEN CombinedSentimentAnalyzer(analyzer.id + 1, strategy_arg)
    ELSE analyzer

\* get_combined_analyzer(strategy), given the value of the global
\* _combined_analyzer: the value of the global after the call, which is also
\* the object returned.
get_combined_analyzer(analyzer, strategy_arg) ==
    IF analyzer = NoAnalyzer THEN CombinedSentimentAnalyzer(1, strategy_arg)
    ELSE analyzer

\* What the two source calls do in the calls of analyze_sentiment_combined:
\* the sources disagree, so that the strategies give different results.
SingletonTransformerCall == ReturnedCall(SourceResult(HOPE, Tenths(7), Tenths(9)))

SingletonLlmCalls ==
    {RaisedCall, ReturnedCall(SourceResult(SORROW, Rat(-1, 2), Hundredths(98)))}

\* A call of get_combined_analyzer with any strategy.
GetCombinedAnalyzer ==
    /\ Len(history) < MaxCalls
    /\ \E strategy_arg \in CombinationStrategy :
        \E returned \in {get_combined_analyzer(_combined_analyzer, strategy_arg)} :
           /\ _combined_analyzer' = returned
           /\ history' = Append(history, [op |-> "get_combined_analyzer",
                                          strategy |-> strategy_arg,
                                          returned |-> returned])
    /\ UNCHANGED <<speaker_profiles, narrative_arcs, nupdates, strategy, combined,
                   threads, objects>>

\* A call of analyze_sentiment_combined: get_combined_analyzer() with the
\* default strategy, then analyze on the object it returns.
AnalyzeSentimentCombined ==
    /\ Len(history) < MaxCalls
    /\ \E llm_call \in SingletonLlmCalls :
        \E returned \in {get_combined_analyzer(_combined_analyzer, WEIGHTED_AVERAGE)} :
           /\ _combined_analyzer' = returned
           /\ history' = Append(history, [op |-> "analyze_sentiment_combined",
                                          returned |-> returned,
                                          llm_call |-> llm_call,
                                          outcome |-> analyze(returned.strategy,
                                                              SingletonTransformerCall,
                                                              TRUE, llm_call)])
    /\ UNCHANGED <<speaker_profiles, narrative_arcs, nupdates, strategy, combined,
                   threads, objects>>

NextSingleton == GetCombinedAnalyzer \/ AnalyzeSentimentCombined

SpecSingleton == Init /\ [][NextSingleton]_vars

-----------------------------------------------------------------------------
(* Calls from several threads on one classifier object.  The object holds  *)
(* no lock; a thread can be preempted between any two of the steps below.  *)

\* Thread t calls update_speaker_profile.
CallUpdate(t) ==
    /\ threads[t].pc = "idle"
    /\ \E speaker_id \in SpecSpeakers, category \in FeedbackCategories,
          accuracy \in SpecAccuracies :
           threads' = [threads EXCEPT ![t] =
                          [pc |-> "update_check", op |-> "update_speaker_profile",
                           speaker_id |-> speaker_id, category |-> category,
                           accuracy |-> accuracy]]
    /\ UNCHANGED <<speaker_profiles, narrative_arcs, history, nupdates, strategy, _combined_analyzer,
                   combined, objects>>

\* Thread t calls classify_emotion with a non-empty context window, on a text
\* whose provisional leader is current_category.
CallClassify(t) ==
    /\ threads[t].pc = "idle"
    /\ \E speaker_id \in SpecSpeakers, current_category \in FeedbackCategories :
           threads' = [threads EXCEPT ![t] =
                          [pc |-> "calibration_check", op |-> "classify_emotion",
                           speaker_id |-> speaker_id,
                           category |-> current_category]]
    /\ UNCHANGED <<speaker_profiles, narrative_arcs, history, nupdates, strategy, _combined_analyzer,
                   combined, objects>>

\* if speaker_id not in self.speaker_profiles
ProfileCheck(t, at, absent, present) ==
    /\ threads[t].pc = at
    /\ threads' = [threads EXCEPT ![t].pc =
                      IF threads[t].speaker_id \in DOMAIN speaker_profiles
                      THEN present ELSE absent]
    /\ UNCHANGED <<speaker_profiles, narrative_arcs, history, nupdates, strategy, _combined_analyzer,
                   combined, objects>>

\* self.speaker_profiles[speaker_id] = {cat: 1.0 for cat in EmotionCategory}
ProfileCreate(t, at, then) ==
    /\ threads[t].pc = at
    /\ speaker_profiles' = SetItem(speaker_profiles, threads[t].speaker_id, NewProfile)
    /\ objects' = [objects EXCEPT !.profiles = SetItem(@, threads[t].speaker_id, t)]
    /\ threads' = [threads EXCEPT ![t].pc = then]
    /\ UNCHANGED <<narrative_arcs, history, nupdates, strategy, _combined_analyzer, combined>>

UpdateCheck(t) == ProfileCheck(t, "update_check", "update_create", "update_read")

UpdateCreate(t) == ProfileCreate(t, "update_create", "update_read")

\* The left-hand side of `*=` is evaluated: the speaker's dict is fetched and
\* the factor read from it.
UpdateRead(t) ==
    /\ threads[t].pc = "update_read"
    /\ threads' = [threads EXCEPT ![t] =
                      [k \in DOMAIN @ \cup {"held", "value"} |->
                          IF k = "pc" THEN "update_write"
                          ELSE IF k = "held"
                          THEN objects.profiles[threads[t].speaker_id]
                          ELSE IF k = "value"
                          THEN speaker_profiles[threads[t].speaker_id]
                                               [threads[t].category]
                          ELSE @[k]]]
    /\ UNCHANGED <<speaker_profiles, narrative_arcs, history, nupdates, strategy, _combined_analyzer,
                   combined, objects>>

\* The product is stored into the dict that was fetched, which is the
\* speaker's profile unless another thread has replaced it since.
UpdateWrite(t) ==
    /\ threads[t].pc = "update_write"
    /\ speaker_profiles' =
           IF objects.profiles[threads[t].speaker_id] = threads[t].held
           THEN [speaker_profiles EXCEPT
                    ![threads[t].speaker_id][threads[t].category] =
                        RMul(threads[t].value,
                             RAdd(One, RSub(threads[t].accuracy, Tenths(5))))]
           ELSE speaker_profiles
    /\ threads' = [threads EXCEPT ![t].pc = "done"]
    /\ UNCHANGED <<narrative_arcs, history, nupdates, strategy, _combined_analyzer, combined, objects>>

\* _get_speaker_calibration in classify_emotion
CalibrationCheck(t) ==
    ProfileCheck(t, "calibration_check", "calibration_create", "arc_check")

CalibrationCreate(t) == ProfileCreate(t, "calibration_create", "arc_check")

\* if speaker_id not in self.narrative_arcs
ArcCheck(t) ==
    /\ threads[t].pc = "arc_check"
    /\ threads' = [threads EXCEPT ![t].pc =
                      IF threads[t].speaker_id \in DOMAIN narrative_arcs
                      THEN "arc_append" ELSE "arc_create"]
    /\ UNCHANGED <<speaker_profiles, narrative_arcs, history, nupdates, strategy, _combined_analyzer,
                   combined, objects>>

\* self.narrative_arcs[speaker_id] = []
ArcCreate(t) ==
    /\ threads[t].pc = "arc_create"
    /\ narrative_arcs' = SetItem(narrative_arcs, threads[t].speaker_id, <<>>)
    /\ objects' = [objects EXCEPT !.arcs = SetItem(@, threads[t].speaker_id, t)]
    /\ threads' = [threads EXCEPT ![t].pc = "arc_append"]
    /\ UNCHANGED <<speaker_profiles, history, nupdates, strategy, _combined_analyzer, combined>>

\* self.narrative_arcs[speaker_id].append(current_category)
ArcAppendStep(t) ==
    /\ threads[t].pc = "arc_append"
    /\ narrative_arcs' = [narrative_arcs EXCEPT ![threads[t].speaker_id] =
                             Append(@, threads[t].category)]
    /\ threads' = [threads EXCEPT ![t].pc = "done"]
    /\ UNCHANGED <<speaker_profiles, history, nupdates, strategy, _combined_analyzer, combined, objects>>

NextThreads ==
    \E t \in Threads :
        \/ CallUpdate(t) \/ UpdateCheck(t) \/ UpdateCreate(t)
        \/ UpdateRead(t) \/ UpdateWrite(t)
        \/ CallClassify(t) \/ CalibrationCheck(t) \/ CalibrationCreate(t)
        \/ ArcCheck(t) \/ ArcCreate(t) \/ ArcAppendStep(t)

SpecThreads == Init /\ [][NextThreads]_vars

-----------------------------------------------------------------------------
(* Properties of classify_emotion and update_speaker_profile               *)

IsClassify(entry) == entry.op = "classify_emotion"

IsUpdate(entry) == entry.op = "update_speaker_profile"

\* The classify_emotion calls in the log.
ClassifyCalls == {i \in 1..Len(history) : IsClassify(history[i])}

OnMainPath(entry) == branch_of[entry.text] = "main"

SameArguments(a, b) ==
    /\ a.text = b.text
    /\ a.sentiment_score = b.sentiment_score
    /\ a.speaker_id = b.speaker_id
    /\ a.context_window = b.context_window

\* The summed raw match scores of a category.
RawSum(matches, category) == SumScores(matches, category, 1)

\* C1: every classify_emotion call, in whatever state the earlier calls left
\* the stores, returns one of the five categories and a confidence within
\* [0.1, 0.98].
C1_CategoryAndConfidenceInRange ==
    \A i \in ClassifyCalls :
        /\ history[i].result.category \in Categories
        /\ RLeq(Tenths(1), history[i].result.confidence)
        /\ RLeq(history[i].result.confidence, Hundredths(98))

\* A main-path call with a context window, made after a feedback call, whose
\* confidence sits at the upper end of the range.
C1_Witness ==
    \E i \in ClassifyCalls :
        /\ OnMainPath(history[i])
        /\ history[i].context_window # <<>>
        /\ nupdates > 0
        /\ history[i].result.confidence = Hundredths(98)

\* C2: on every branch, the too-short and the nonsensical ones included, the
\* score of the result is the base sentiment score the caller passed.
C2_ScoreIsBaseSentiment ==
    \A i \in ClassifyCalls :
        history[i].result.score = history[i].sentiment_score

\* C3 as claimed: two classify_emotion calls in a row with the same
\* arguments, a non-empty context window included, return the same category
\* and the same confidence.
C3_Idempotent ==
    \A i \in ClassifyCalls :
        (i + 1 \in ClassifyCalls /\ SameArguments(history[i], history[i + 1]))
            => /\ history[i + 1].result.category = history[i].result.category
               /\ history[i + 1].result.confidence = history[i].result.confidence

\* C3: two classify_emotion calls in a row with the same arguments and no
\* context window return the same category and the same confidence.
C3_IdempotentWithoutContext ==
    \A i \in ClassifyCalls :
        (/\ i + 1 \in ClassifyCalls
         /\ SameArguments(history[i], history[i + 1])
         /\ history[i].context_window = <<>>)
            => /\ history[i + 1].result.category = history[i].result.category
               /\ history[i + 1].result.confidence = history[i].result.confidence

\* Feedback for a speaker, then the same main-path call twice without a
\* context window.
C3_Witness ==
    /\ Len(history) = 3
    /\ IsUpdate(history[1])
    /\ IsClassify(history[2]) /\ IsClassify(history[3])
    /\ history[1].speaker_id = history[2].speaker_id
    /\ history[1].accuracy # Tenths(5)
    /\ history[1].category = history[2].result.category
    /\ SameArguments(history[2], history[3])
    /\ history[2].context_window = <<>>
    /\ OnMainPath(history[2])

\* A classify_emotion call, one feedback call for the same speaker with an
\* accuracy other than 0.5, and the same classify_emotion call again, on the
\* main path: the positions of the first call.
FeedbackBetween ==
    {i \in ClassifyCalls :
        /\ i + 2 \in ClassifyCalls
        /\ IsUpdate(history[i + 1])
        /\ SameArguments(history[i], history[i + 2])
        /\ history[i + 1].speaker_id = history[i].speaker_id
        /\ history[i + 1].accuracy # Tenths(5)
        /\ OnMainPath(history[i])}

\* C4 as claimed: the two calls around the feedback return different
\* confidences, whatever category the feedback was for.
C4_FeedbackChangesConfidence ==
    \A i \in FeedbackBetween :
        history[i + 2].result.confidence # history[i].result.confidence

\* The feedback raises the factor of the category that won the first call
\* with a positive score, the first confidence is strictly between 0.1 and
\* 0.95, and no context window is passed.
FeedbackForWinner(i) ==
    /\ history[i + 1].category = history[i].result.category
    /\ RLess(Tenths(5), history[i + 1].accuracy)
    /\ history[i].context_window = <<>>
    /\ RLess(Zero, base_scores[history[i].text][history[i].sentiment_score]
                       .scores[history[i].result.category])
    /\ RLess(Tenths(1), history[i].result.confidence)
    /\ RLess(history[i].result.confidence, Hundredths(95))

\* C4: when the feedback between the two calls has an accuracy above 0.5 and
\* is for the category that won the first call with a positive score, the
\* first confidence lies strictly between 0.1 and 0.95 and no context window
\* is passed, the second call returns a strictly higher confidence.
C4_FeedbackForWinnerRaisesConfidence ==
    \A i \in FeedbackBetween :
        FeedbackForWinner(i)
            => RLess(history[i].result.confidence, history[i + 2].result.confidence)

C4_Witness ==
    \E i \in FeedbackBetween :
        /\ FeedbackForWinner(i)
        /\ history[i + 2].result.category = history[i].result.category

\* Equal raw hope and sorrow sums above 0.3 and no ambivalent pattern among
\* the matches of a call.
BalancedHopeAndSorrow(entry) ==
    LET matches == entry.result.matched_patterns
    IN  /\ OnMainPath(entry)
        /\ RawSum(matches, HOPE) = RawSum(matches, SORROW)
        /\ RLess(Tenths(3), RawSum(matches, HOPE))
        /\ \A j \in 1..Len(matches) : matches[j].category # AMBIVALENT

\* C5 as claimed: with balanced hope and sorrow and no ambivalent pattern the
\* call returns ambivalent, whatever else matched and whatever the speaker's
\* state.
C5_AmbivalenceLaw ==
    \A i \in ClassifyCalls :
        BalancedHopeAndSorrow(history[i])
            => history[i].result.category = AMBIVALENT

\* Nothing but hope and sorrow patterns matched; no override towards
\* transformative or reflective_neutral and no redaction marker applies; the
\* speaker's calibration factors are all 1.0; no context window is passed.
NothingElseInPlay(entry) ==
    LET matches == entry.result.matched_patterns
        detected == detected_in[entry.text]
        scores == detected.category_scores
    IN  /\ \A j \in 1..Len(matches) : matches[j].category \in {HOPE, SORROW}
        /\ TransformativeOverride(scores, detected.text_lower) = scores
        /\ ReflectiveOverride(scores, detected.text_lower) = scores
        /\ FilteredContent(scores, entry.text, entry.sentiment_score) = scores
        /\ \A c \in Categories : speaker_profiles[entry.speaker_id][c] = One
        /\ entry.context_window = <<>>

\* C5: with balanced hope and sorrow, no ambivalent pattern and no pattern of
\* any other category, no override towards another category, no redaction
\* marker, calibration factors of 1.0 and no context window, the call
\* returns ambivalent for every base sentiment.
C5_AmbivalenceLawOnNeutralGround ==
    \A i \in ClassifyCalls :
        (BalancedHopeAndSorrow(history[i]) /\ NothingElseInPlay(history[i]))
            => history[i].result.category = AMBIVALENT

\* Balanced hope and sorrow under a strongly positive base sentiment, which
\* raises hope above sorrow.
C5_Witness ==
    \E i \in ClassifyCalls :
        /\ BalancedHopeAndSorrow(history[i])
        /\ NothingElseInPlay(history[i])
        /\ RLess(Tenths(7), history[i].sentiment_score)
        /\ history[i].result.category = AMBIVALENT

\* C6: a text of fewer than 3 characters after trimming, the empty string
\* included, gets reflective_neutral, confidence 0.1 and no matched pattern,
\* for every base sentiment and speaker.
C6_ShortTextShortCircuit ==
    \A i \in ClassifyCalls :
        Len(Strip(history[i].text)) < 3
            => /\ history[i].result.category = REFLECTIVE_NEUTRAL
               /\ history[i].result.confidence = Tenths(1)
               /\ history[i].result.matched_patterns = <<>>

\* The empty string, passed with a context window, a strong base sentiment
\* and after feedback for the speaker.
C6_Witness ==
    \E i \in ClassifyCalls :
        /\ history[i].text = ""
        /\ history[i].context_window # <<>>
        /\ RLess(Tenths(7), history[i].sentiment_score)
        /\ nupdates > 0
        /\ history[i].result.category = REFLECTIVE_NEUTRAL

\* category_scores as classify_emotion holds them after the zero-evidence
\* fallback, before the overrides.
ScoresAfterFallback(text, sentiment_score) ==
    NoEvidenceFallback(detected_in[text].category_scores, sentiment_score)

\* A category's share of the total absolute mass.
Share(scores, category) == RDiv(scores[category], TotalAbs(scores))

\* The text has exactly one pattern match, of a pattern of weight >= 0.9.
StrongSingleMatch(text) ==
    /\ text \in EvidenceTexts
    /\ Len(detected_in[text].matches) = 1
    /\ detected_in[text].matches[1].weight >= 90
    /\ detected_in[ZeroEvidenceText].matches = <<>>

MatchedCategory(text) == detected_in[text].matches[1].category

\* C19 as claimed: for every category X and base sentiment, adding one
\* pattern match of weight >= 0.9 for X to a text without any match strictly
\* increases X's normalized share over the zero-evidence baseline of the same
\* base sentiment.
C19_MonotonicEvidence ==
    \A i \in ClassifyCalls :
        StrongSingleMatch(history[i].text)
            => RLess(Share(ScoresAfterFallback(ZeroEvidenceText,
                                               history[i].sentiment_score),
                           MatchedCategory(history[i].text)),
                     Share(ScoresAfterFallback(history[i].text,
                                               history[i].sentiment_score),
                           MatchedCategory(history[i].text)))

\* C19 amended: one match of weight >= 0.9 for X that does not stand next to
\* a negation gives X the whole mass (share 1.0); this is strictly above the
\* zero-evidence baseline except for X = reflective_neutral at a base
\* sentiment in [-0.5, 0.5], where the baseline share is already 1.0.  A
\* match next to a negation gives X the share -1.0.
C19_EvidenceTakesWholeMass ==
    \A i \in ClassifyCalls :
        StrongSingleMatch(history[i].text)
            => LET s == history[i].sentiment_score
                   X == MatchedCategory(history[i].text)
                   with == Share(ScoresAfterFallback(history[i].text, s), X)
                   baseline == Share(ScoresAfterFallback(ZeroEvidenceText, s), X)
                   neutral == RLeq(Rat(-5, 10), s) /\ RLeq(s, Tenths(5))
               IN  IF RLess(Zero, detected_in[history[i].text].matches[1].score)
                   THEN /\ with = One
                        /\ baseline = One <=> (X = REFLECTIVE_NEUTRAL /\ neutral)
                        /\ baseline # One => RLess(baseline, with)
                   ELSE with = Rat(-1, 1)

\* A hope match added under a base sentiment of 0.8: the share of hope rises
\* from 0.8 to 1.0.
C19_Witness ==
    /\ Len(history) = 1
    /\ history[1].text = "the happy cat sat on the mat"
    /\ history[1].sentiment_score = Hundredths(80)
    /\ StrongSingleMatch(history[1].text)
    /\ MatchedCategory(history[1].text) = HOPE
    /\ Share(ScoresAfterFallback(ZeroEvidenceText, Hundredths(80)), HOPE) = Tenths(8)
    /\ Share(ScoresAfterFallback(history[1].text, Hundredths(80)), HOPE) = One
    /\ history[1].result.category = HOPE

\* The score vector from which a logged main-path call took its winner and
\* its confidence, rebuilt from the stores the call left behind: the scores
\* before the per-speaker steps, times the speaker's factors, plus the arc
\* score of the log the call appended to.
FinalScores(entry) ==
    LET calibrated ==
            ApplyCalibration(base_scores[entry.text][entry.sentiment_score].scores,
                             speaker_profiles[entry.speaker_id])
        narrative_score ==
            IF entry.context_window # <<>>
            THEN ArcScore(narrative_arcs[entry.speaker_id])
            ELSE Zero
    IN  [calibrated EXCEPT ![TRANSFORMATIVE] = RAdd(@, narrative_score)]

MarginConfidence(scores) ==
    LET values == Values(scores)
        top == values[FirstMax(values)]
    IN  RMin(Hundredths(95),
             RMax(Tenths(1),
                  RAdd(top, RMul(RSub(top, SecondHighest(values)), Tenths(3)))))

\* C21: on the main path the confidence is the margin confidence plus 0.2,
\* capped at 0.98, exactly when the winning category's raw accumulator (the
\* sum of its match scores before normalization) exceeded 1.0, and the
\* margin confidence otherwise.
C21_BonusOnRawAccumulator ==
    \A i \in ClassifyCalls :
        OnMainPath(history[i])
            => history[i].result.confidence =
                   IF RLess(One, RawSum(history[i].result.matched_patterns,
                                        history[i].result.category))
                   THEN RMin(Hundredths(98),
                             RAdd(MarginConfidence(FinalScores(history[i])), Tenths(2)))
                   ELSE MarginConfidence(FinalScores(history[i]))

-----------------------------------------------------------------------------
(* Properties of the single rules of classify_emotion                      *)

\* The step is the observed call of a single-call specification.
ObservedStep == history = <<>> /\ history' # <<>>

\* A base sentiment within [-0.7, 0.7].
InWeakRange(s) == RLeq(Rat(-7, 10), s) /\ RLeq(s, Tenths(7))

PatternFired(text) == detected_in[text].matches # <<>>

\* What the call of an entry returns from the present stores when it is made
\* with the base sentiment s.
SameCallWith(entry, s) ==
    ClassifyCall(entry.text, s, entry.speaker_id, entry.context_window,
                 speaker_profiles, narrative_arcs).result

\* From the same stores, the call of an entry made with the base sentiment s
\* returns the category and the confidence the entry holds, and the scores
\* of hope and sorrow before the per-speaker steps are the same.
SameOutcomeWith(entry, s) ==
    /\ SameCallWith(entry, s).category = entry.result.category
    /\ SameCallWith(entry, s).confidence = entry.result.confidence
    /\ \A c \in {HOPE, SORROW} :
           base_scores[entry.text][s].scores[c] =
               base_scores[entry.text][entry.sentiment_score].scores[c]

\* C23 as claimed: for a text in which at least one pattern fired and a
\* fixed speaker state, any two base sentiments within [-0.7, 0.7] give the
\* same category and the same confidence, and leave the hope and sorrow
\* scores alike.
C23_WeakSentimentIgnored ==
    [][ObservedStep
        => \A s \in RuleSentiments :
               (/\ OnMainPath(history'[1])
                /\ PatternFired(history'[1].text)
                /\ InWeakRange(history'[1].sentiment_score)
                /\ InWeakRange(s))
                   => SameOutcomeWith(history'[1], s)
      ]_vars

\* The pattern scores of a text do not cancel to zero, and the text holds no
\* redaction marker.
EvidenceStands(text) ==
    /\ TotalAbs(detected_in[text].category_scores) # Zero
    /\ ~Contains(text, "*")

\* C23 amended: the same for a text whose pattern scores do not cancel to
\* zero and that holds no redaction marker.
C23_WeakSentimentIgnoredOnEvidence ==
    [][ObservedStep
        => \A s \in RuleSentiments :
               (/\ OnMainPath(history'[1])
                /\ PatternFired(history'[1].text)
                /\ EvidenceStands(history'[1].text)
                /\ InWeakRange(history'[1].sentiment_score)
                /\ InWeakRange(s))
                   => SameOutcomeWith(history'[1], s)
      ]_vars

\* A text with three hope matches called with a base sentiment of exactly
\* 0.7, after feedback for the speaker: hope has a score of 1.0 and is not
\* raised to 1.3, so the confidence is 0.95 and not 0.98.
C23_Witness ==
    /\ Len(history) = 1
    /\ history[1].text = "I hope for a better future."
    /\ history[1].sentiment_score = Tenths(7)
    /\ EvidenceStands(history[1].text)
    /\ nupdates > 0
    /\ speaker_profiles["alice"][HOPE] = One
    /\ base_scores[history[1].text][Tenths(7)].scores[HOPE] = One
    /\ base_scores[history[1].text][Tenths(8)].scores[HOPE] = Tenths(13)
    /\ history[1].result.category = HOPE
    /\ history[1].result.confidence = Hundredths(95)

\* Where each pattern matches in the normalized text of a rule text: the
\* spans re.finditer reports, per pattern.
found_in ==
    [t \in RuleTexts |->
        [p \in 1..Len(all_patterns) |->
            IF branch_of[t] = "main"
            THEN FindIter(all_patterns[p].pattern, detected_in[t].text_lower, 0)
            ELSE <<>>]]

\* The window of a match: from 20 characters before it to 20 characters
\* after it, cut at the ends of the text.
WindowAround(text, m) ==
    Slice(text,
          IF m.start > 20 THEN m.start - 20 ELSE 0,
          IF m.end + 20 < Len(text) THEN m.end + 20 ELSE Len(text))

\* The context modifier as a function of the window.
ModifierOf(window) ==
    IF ContainsAny(window, {"not", "never"}) THEN Rat(-1, 1)
    ELSE IF ContainsAny(window, {"very", "really"}) THEN Rat(3, 2)
    ELSE One

\* Description and effective score of every match of the lo-th to hi-th
\* pattern in a rule text, from the spans and their windows.
RECURSIVE ScoresByWindow(_, _, _)
ScoresByWindow(t, lo, hi) ==
    IF lo > hi THEN <<>>
    ELSE IF lo = hi
    THEN [k \in 1..Len(found_in[t][lo]) |->
            [description |-> all_patterns[lo].description,
             score |-> RMul(Hundredths(all_patterns[lo].weight),
                            ModifierOf(WindowAround(detected_in[t].text_lower,
                                                    found_in[t][lo][k])))]]
    ELSE ScoresByWindow(t, lo, (lo + hi) \div 2)
            \o ScoresByWindow(t, (lo + hi) \div 2 + 1, hi)

Tokens(text) == Split(Strip(Lower(Strip(text))))

DistinctTokens(text) == {Tokens(text)[k] : k \in 1..Len(Tokens(text))}

\* The repetition rule: at least 3 tokens of which at most 2 are distinct, or
\* at least 6 tokens of which at most 3 are distinct and one occurs 3 times
\* or more.
Repetitive(text) ==
    \/ Len(Tokens(text)) >= 3 /\ Cardinality(DistinctTokens(text)) <= 2
    \/ /\ Len(Tokens(text)) >= 6
       /\ Cardinality(DistinctTokens(text)) <= 3
       /\ \E w \in DistinctTokens(text) : CountOf(Tokens(text), w) >= 3

\* C25: every text the repetition rule covers is judged nonsensical:
\* classify_emotion returns reflective_neutral with confidence 0.2 and no
\* matched pattern.
C25_RepetitionRule ==
    \A i \in ClassifyCalls :
        Repetitive(history[i].text)
            => /\ branch_of[history[i].text] = "nonsensical"
               /\ history[i].result.category = REFLECTIVE_NEUTRAL
               /\ history[i].result.confidence = Tenths(2)
               /\ history[i].result.matched_patterns = <<>>

\* No pattern fired in the text of a call, no priority override and no
\* redaction marker applies, the speaker's factors are all 1.0 and no context
\* window is passed.
NothingButSentiment(entry) ==
    /\ OnMainPath(entry)
    /\ ~PatternFired(entry.text)
    /\ AmbivalentOverride(NewProfile, detected_in[entry.text].text_lower) = NewProfile
    /\ TransformativeOverride(NewProfile, detected_in[entry.text].text_lower) = NewProfile
    /\ ReflectiveOverride(NewProfile, detected_in[entry.text].text_lower) = NewProfile
    /\ ~Contains(entry.text, "*")
    /\ \A c \in Categories : speaker_profiles[entry.speaker_id][c] = One
    /\ entry.context_window = <<>>

\* C26: with nothing but the base sentiment to go by, classify_emotion
\* returns sorrow exactly when the base sentiment is below -0.5, hope exactly
\* when it is above 0.5 and reflective_neutral otherwise, -0.5 and 0.5
\* included; sorrow and hope are set to 0.8 against 0.2 for
\* reflective_neutral.
C26_NoEvidenceFallback ==
    \A i \in ClassifyCalls :
        NothingButSentiment(history[i])
            => /\ history[i].result.category =
                      IF RLess(history[i].sentiment_score, Rat(-5, 10)) THEN SORROW
                      ELSE IF RLess(Tenths(5), history[i].sentiment_score) THEN HOPE
                      ELSE REFLECTIVE_NEUTRAL
               /\ ScoresAfterFallback(history[i].text, history[i].sentiment_score) =
                      IF RLess(history[i].sentiment_score, Rat(-5, 10))
                      THEN [c \in Categories |->
                               IF c = SORROW THEN Tenths(8)
                               ELSE IF c = REFLECTIVE_NEUTRAL THEN Tenths(2) ELSE Zero]
                      ELSE IF RLess(Tenths(5), history[i].sentiment_score)
                      THEN [c \in Categories |->
                               IF c = HOPE THEN Tenths(8)
                               ELSE IF c = REFLECTIVE_NEUTRAL THEN Tenths(2) ELSE Zero]
                      ELSE [c \in Categories |->
                               IF c = REFLECTIVE_NEUTRAL THEN One ELSE Zero]

\* A text without any match called with a base sentiment of exactly -0.5.
C26_Witness ==
    /\ Len(history) = 1
    /\ history[1].text = "the cat sat on the mat"
    /\ history[1].sentiment_score = Rat(-5, 10)
    /\ NothingButSentiment(history[1])
    /\ history[1].result.category = REFLECTIVE_NEUTRAL
    /\ \E s \in RuleSentiments :
           ScoresAfterFallback(history[1].text, s)[SORROW] = Tenths(8)

-----------------------------------------------------------------------------
(* What a call leaves alone                                                *)

\* The step is one logged call; its entry is the last of the log.
LoggedStep == Len(history') = Len(history) + 1

\* A speaker's factor, 1.0 while the speaker has no profile.
FactorOf(profiles, speaker_id, category) ==
    IF speaker_id \in DOMAIN profiles THEN profiles[speaker_id][category] ELSE One

\* Every profile there was is still there, unchanged, except the one of
\* speaker_id.
OtherProfilesKept(speaker_id) ==
    /\ DOMAIN speaker_profiles \subseteq DOMAIN speaker_profiles'
    /\ DOMAIN speaker_profiles' \subseteq DOMAIN speaker_profiles \cup {speaker_id}
    /\ \A s \in DOMAIN speaker_profiles \ {speaker_id} :
           speaker_profiles'[s] = speaker_profiles[s]

\* C27: update_speaker_profile(s, c, a) changes only the factor of category
\* c of speaker s: the factors of s's other four categories, every other
\* speaker's profile and every arc log stay as they were.  classify_emotion
\* never changes an existing factor; it may only create a missing profile
\* with all factors 1.0.
C27_FeedbackFrame ==
    [][LoggedStep
        => IF IsUpdate(history'[Len(history')])
           THEN /\ narrative_arcs' = narrative_arcs
                /\ OtherProfilesKept(history'[Len(history')].speaker_id)
                /\ \A c \in Categories \ {history'[Len(history')].category} :
                       speaker_profiles'[history'[Len(history')].speaker_id][c] =
                           FactorOf(speaker_profiles,
                                    history'[Len(history')].speaker_id, c)
           ELSE /\ OtherProfilesKept(history'[Len(history')].speaker_id)
                /\ \A s \in DOMAIN speaker_profiles :
                       speaker_profiles'[s] = speaker_profiles[s]
                /\ \A s \in DOMAIN speaker_profiles' \ DOMAIN speaker_profiles :
                       speaker_profiles'[s] = NewProfile
      ]_vars

\* A main-path call with a context window for bob, feedback for alice's hope
\* factor, and a call for alice: alice's hope factor is 1.3, her other
\* factors and bob's are 1.0, and bob's log holds its entry.
C27_Witness ==
    /\ Len(history) = 3
    /\ IsClassify(history[1]) /\ history[1].speaker_id = "bob"
    /\ OnMainPath(history[1]) /\ history[1].context_window # <<>>
    /\ IsUpdate(history[2]) /\ history[2].speaker_id = "alice"
    /\ history[2].category = HOPE
    /\ IsClassify(history[3]) /\ history[3].speaker_id = "alice"
    /\ OnMainPath(history[3])
    /\ speaker_profiles["alice"] = [NewProfile EXCEPT ![HOPE] = Tenths(13)]
    /\ speaker_profiles["bob"] = NewProfile
    /\ Len(narrative_arcs["bob"]) = 1

\* C28: a classify_emotion call that takes the too-short or the nonsensical
\* branch creates no profile and appends nothing to any arc log, also when a
\* context window is passed; a main-path call with no context window leaves
\* every arc log as it was.
C28_DegenerateInputFrame ==
    [][(LoggedStep /\ IsClassify(history'[Len(history')]))
        => /\ ~OnMainPath(history'[Len(history')])
                => /\ speaker_profiles' = speaker_profiles
                   /\ narrative_arcs' = narrative_arcs
           /\ history'[Len(history')].context_window = <<>>
                => narrative_arcs' = narrative_arcs
      ]_vars

\* A too-short call and then a nonsensical call with a context window for
\* bob, after a main-path call with a context window for alice: bob has no
\* profile and no log, alice has both.
C28_Witness ==
    /\ Len(history) = 3
    /\ IsClassify(history[1]) /\ history[1].speaker_id = "alice"
    /\ OnMainPath(history[1]) /\ history[1].context_window # <<>>
    /\ IsClassify(history[2]) /\ history[2].speaker_id = "bob"
    /\ branch_of[history[2].text] = "too_short"
    /\ history[2].context_window # <<>>
    /\ IsClassify(history[3]) /\ history[3].speaker_id = "bob"
    /\ branch_of[history[3].text] = "nonsensical"
    /\ history[3].context_window # <<>>
    /\ DOMAIN speaker_profiles = {"alice"}
    /\ DOMAIN narrative_arcs = {"alice"}
    /\ Len(narrative_arcs["alice"]) = 1

-----------------------------------------------------------------------------
(* Properties of the narrative-arc step                                    *)

LogOf(arcs, speaker_id) ==
    IF speaker_id \in DOMAIN arcs THEN arcs[speaker_id] ELSE <<>>

\* The five most recent entries of a log.
RecentFive(log) == SubSeq(log, IF Len(log) > 5 THEN Len(log) - 4 ELSE 1, Len(log))

\* The bonus as a function of the most recent entries alone: 0.8 if any of
\* them is transformative, otherwise 0.7 if the oldest is sorrow and the
\* newest is hope, otherwise 0.
WindowBonus(recent) ==
    IF \E k \in 1..Len(recent) : recent[k] = TRANSFORMATIVE THEN Tenths(8)
    ELSE IF recent # <<>> /\ recent[1] = SORROW /\ recent[Len(recent)] = HOPE
    THEN Tenths(7)
    ELSE Zero

\* A call appended its provisional leader, the first maximum of the
\* calibrated scores, to the log `before`, and took its category and its
\* confidence from the calibrated scores with `bonus` added to
\* transformative.
ArcStepWith(entry, before, after, calibrated, bonus) ==
    /\ after = Append(before, MaxCategory(calibrated))
    /\ entry.result.category =
           MaxCategory([calibrated EXCEPT ![TRANSFORMATIVE] = RAdd(@, bonus)])
    /\ entry.result.confidence =
           Confidence(Values([calibrated EXCEPT ![TRANSFORMATIVE] = RAdd(@, bonus)]))

\* The scores of a call after the calibration, given the speaker's factors.
CalibratedScores(entry, profiles) ==
    ApplyCalibration(base_scores[entry.text][entry.sentiment_score].scores,
                     profiles[entry.speaker_id])

\* The step is a main-path classify_emotion call with a context window.
ContextCallStep ==
    /\ history' # <<>>
    /\ history' # history
    /\ IsClassify(history'[Len(history')])
    /\ OnMainPath(history'[Len(history')])
    /\ history'[Len(history')].context_window # <<>>

\* C22 as claimed: a main-path call with a context window appends the
\* provisional leader (the leader after calibration, before any arc bonus) to
\* the speaker's log, and the bonus added to transformative is 0.8 if any of
\* the five most recent entries, the appended one included, is
\* transformative, otherwise 0.7 if the oldest of them is sorrow and the
\* newest hope, otherwise 0.
C22_ArcBonusFromLastFive ==
    [][ContextCallStep
        => LET entry == history'[Len(history')]
               after == LogOf(narrative_arcs', entry.speaker_id)
           IN  ArcStepWith(entry, LogOf(narrative_arcs, entry.speaker_id), after,
                           CalibratedScores(entry, speaker_profiles'),
                           WindowBonus(RecentFive(after)))
      ]_vars

\* C22 amended: the same, with a bonus of 0 while the log, the appended
\* entry included, holds fewer than two entries.
C22_ArcBonusFromLastFiveOfTwoOrMore ==
    [][ContextCallStep
        => LET entry == history'[Len(history')]
               after == LogOf(narrative_arcs', entry.speaker_id)
           IN  ArcStepWith(entry, LogOf(narrative_arcs, entry.speaker_id), after,
                           CalibratedScores(entry, speaker_profiles'),
                           IF Len(after) < 2 THEN Zero
                           ELSE WindowBonus(RecentFive(after)))
      ]_vars

\* A sixth call for a speaker whose oldest entry is transformative: the five
\* most recent entries run from sorrow to hope without a transformative one,
\* and the call returns transformative with the confidence the bonus of 0.7
\* gives (0.7 + 0.1 x 0.3).
C22_Witness ==
    /\ Len(history) = 1
    /\ history[1].text = "happy truth"
    /\ Len(LogOf(narrative_arcs, "alice")) = 6
    /\ narrative_arcs["alice"][1] = TRANSFORMATIVE
    /\ \A k \in 2..6 : narrative_arcs["alice"][k] # TRANSFORMATIVE
    /\ narrative_arcs["alice"][2] = SORROW
    /\ narrative_arcs["alice"][6] = HOPE
    /\ history[1].result.category = TRANSFORMATIVE
    /\ history[1].result.confidence = Hundredths(73)

\* The categories that hold the greatest of the scores.
Leaders(category_scores) ==
    {c \in Categories :
        \A d \in Categories : RLeq(category_scores[d], category_scores[c])}

\* The first of a set of categories in the order hope, sorrow,
\* transformative, ambivalent, reflective_neutral.
FirstInOrder(cs) ==
    IF HOPE \in cs THEN HOPE
    ELSE IF SORROW \in cs THEN SORROW
    ELSE IF TRANSFORMATIVE \in cs THEN TRANSFORMATIVE
    ELSE IF AMBIVALENT \in cs THEN AMBIVALENT
    ELSE REFLECTIVE_NEUTRAL

\* The bonus a call added to transformative, read from the speaker's log
\* after the call.
BonusOf(entry, arcs) ==
    IF entry.context_window = <<>> \/ Len(LogOf(arcs, entry.speaker_id)) < 2
    THEN Zero
    ELSE WindowBonus(RecentFive(LogOf(arcs, entry.speaker_id)))

\* The final scores of a call, from the stores after it.
ScoresAfter(entry, profiles, arcs) ==
    [CalibratedScores(entry, profiles) EXCEPT
        ![TRANSFORMATIVE] = RAdd(@, BonusOf(entry, arcs))]

\* C29: a main-path call returns, of the categories that share the highest
\* final score, the first in the order hope, sorrow, transformative,
\* ambivalent, reflective_neutral; the entry a call with a context window
\* appends to the speaker's log is, in the same order, the first of the
\* categories that share the highest calibrated score.
C29_TieBreakInEnumOrder ==
    [][(ObservedStep /\ IsClassify(history'[1]) /\ OnMainPath(history'[1]))
        => /\ history'[1].result.category =
                  FirstInOrder(Leaders(ScoresAfter(history'[1], speaker_profiles',
                                                   narrative_arcs')))
           /\ history'[1].context_window # <<>>
                => LogOf(narrative_arcs', history'[1].speaker_id)
                       [Len(LogOf(narrative_arcs', history'[1].speaker_id))] =
                   FirstInOrder(Leaders(CalibratedScores(history'[1],
                                                         speaker_profiles')))
      ]_vars

\* Hope and sorrow share the highest score of "happy sad" once feedback has
\* halved the speaker's ambivalent factor: the call returns hope and, made
\* with a context window, appends hope to the log.
C29_Witness ==
    /\ Len(history) = 1
    /\ history[1].text = "happy sad"
    /\ history[1].context_window # <<>>
    /\ Leaders(ScoresAfter(history[1], speaker_profiles, narrative_arcs)) =
           {HOPE, SORROW}
    /\ history[1].result.category = HOPE
    /\ narrative_arcs[history[1].speaker_id] = <<HOPE>>

-----------------------------------------------------------------------------
(* Properties of the module-level analyzer                                 *)

\* The strategy the first call of get_combined_analyzer was made with: the
\* argument of a direct call, the default inside analyze_sentiment_combined.
FirstStrategy ==
    IF history[1].op = "get_combined_analyzer" THEN history[1].strategy
    ELSE WEIGHTED_AVERAGE

\* C30: in a sequential series of calls every get_combined_analyzer call
\* returns the same analyzer object, whose strategy is the one passed to the
\* first call whatever strategy a later call passes, and every
\* analyze_sentiment_combined call runs analyze with that strategy.
C30_SingletonAnalyzer ==
    \A k \in 1..Len(history) :
        /\ history[k].returned = history[1].returned
        /\ history[k].returned = _combined_analyzer
        /\ history[k].returned.strategy = FirstStrategy
        /\ history[k].op = "analyze_sentiment_combined"
             => history[k].outcome =
                    analyze(FirstStrategy, SingletonTransformerCall, TRUE,
                            history[k].llm_call)

\* get_combined_analyzer(CONSENSUS), then get_combined_analyzer(LLM_PRIMARY),
\* then analyze_sentiment_combined with both sources answering and
\* disagreeing: the result is the one of the consensus strategy, which
\* neither the default strategy nor the second call's strategy would give.
C30_Witness ==
    /\ Len(history) = 3
    /\ history[1].op = "get_combined_analyzer" /\ history[1].strategy = CONSENSUS
    /\ history[2].op = "get_combined_analyzer" /\ history[2].strategy = LLM_PRIMARY
    /\ history[3].op = "analyze_sentiment_combined"
    /\ ~history[3].llm_call.raised
    /\ history[3].outcome.result.combination_strategy = "consensus_fallback"
    /\ history[3].outcome # analyze(WEIGHTED_AVERAGE, SingletonTransformerCall, TRUE,
                                    history[3].llm_call)
    /\ history[3].outcome # analyze(LLM_PRIMARY, SingletonTransformerCall, TRUE,
                                    history[3].llm_call)

-----------------------------------------------------------------------------
(* Properties of the combination strategies                                *)

Combined(self_strategy) == combined.made /\ strategy = self_strategy

SourcesAgree == combined.transformer_result.category = combined.llm_result.category

\* The average of the two source confidences.
AverageConfidence ==
    RDiv(RAdd(combined.transformer_result.confidence,
              combined.llm_result.confidence), Rat(2, 1))

\* C7 as claimed: under consensus with agreeing sources the combined
\* confidence is at least max(0.1, average confidence) and at most 0.95.
C7_ConsensusConfidenceBounds ==
    (Combined(CONSENSUS) /\ SourcesAgree)
        => /\ RLeq(RMax(Tenths(1), AverageConfidence), combined.result.confidence)
           /\ RLeq(combined.result.confidence, Hundredths(95))

\* C7: under consensus with agreeing sources the combined confidence is at
\* most 0.95 and at least min(0.95, max(0.1, average confidence)); it is at
\* least max(0.1, average confidence) whenever the average is at most 0.95.
C7_ConsensusConfidenceBoundsUpToCap ==
    (Combined(CONSENSUS) /\ SourcesAgree)
        => /\ RLeq(combined.result.confidence, Hundredths(95))
           /\ RLeq(RMin(Hundredths(95), RMax(Tenths(1), AverageConfidence)),
                   combined.result.confidence)
           /\ (RLeq(AverageConfidence, Hundredths(95))
                  => RLeq(RMax(Tenths(1), AverageConfidence),
                          combined.result.confidence))

\* Agreeing sources whose average confidence, 0.95, is the largest the
\* lower bound allows.
C7_Witness ==
    /\ Combined(CONSENSUS)
    /\ SourcesAgree
    /\ AverageConfidence = Hundredths(95)
    /\ combined.result.confidence = Hundredths(95)

\* C8: under weighted average the score and the confidence are the 0.6/0.4
\* blends of the sources' and the category is that of the source with the
\* strictly higher confidence, the transformer's on a tie.
C8_WeightedAverage ==
    Combined(WEIGHTED_AVERAGE)
        => LET tr == combined.transformer_result
               llm == combined.llm_result
           IN  /\ combined.result.score =
                      RAdd(RMul(Tenths(6), tr.score), RMul(Tenths(4), llm.score))
               /\ combined.result.confidence =
                      RAdd(RMul(Tenths(6), tr.confidence), RMul(Tenths(4), llm.confidence))
               /\ combined.result.category =
                      IF RLess(tr.confidence, llm.confidence) THEN llm.category
                      ELSE tr.category

\* Equal confidences and different categories: the tie.
C8_Witness ==
    /\ Combined(WEIGHTED_AVERAGE)
    /\ combined.transformer_result.confidence = combined.llm_result.confidence
    /\ ~SourcesAgree
    /\ combined.transformer_result.score # combined.llm_result.score
    /\ combined.result.category = combined.transformer_result.category

\* C9: under highest confidence the category, the score and the confidence
\* all come from one source, the one with the higher confidence, the
\* transformer on a tie.
C9_HighestConfidenceVerbatim ==
    Combined(HIGHEST_CONFIDENCE)
        => LET tr == combined.transformer_result
               llm == combined.llm_result
               chosen == IF RLess(tr.confidence, llm.confidence) THEN llm ELSE tr
           IN  /\ combined.result.category = chosen.category
               /\ combined.result.score = chosen.score
               /\ combined.result.confidence = chosen.confidence

\* The LLM is the more confident source and differs in category and score.
C9_Witness ==
    /\ Combined(HIGHEST_CONFIDENCE)
    /\ RLess(combined.transformer_result.confidence, combined.llm_result.confidence)
    /\ ~SourcesAgree
    /\ combined.transformer_result.score # combined.llm_result.score
    /\ combined.result.score = combined.llm_result.score

\* The fields of the weighted-average result other than the confidence and
\* the strategy name.
CarriedOver == {"score", "category", "intensity", "label", "analysis_source",
                "primary_source"}

PrimaryStrategy == combined.made /\ strategy \in {TRANSFORMER_PRIMARY, LLM_PRIMARY}

PrimarySource ==
    IF strategy = TRANSFORMER_PRIMARY THEN combined.transformer_result
    ELSE combined.llm_result

\* C11 as claimed: under a primary strategy the combined category and score
\* are the primary source's, and the combined confidence is the primary
\* confidence plus 0.1 when the sources agree and times 0.9 when they differ.
C11_PrimaryStrategies ==
    PrimaryStrategy
        => /\ combined.result.category = PrimarySource.category
           /\ combined.result.score = PrimarySource.score
           /\ combined.result.confidence =
                  IF SourcesAgree THEN RAdd(PrimarySource.confidence, Tenths(1))
                  ELSE RMul(PrimarySource.confidence, Tenths(9))

\* C11 amended: under a primary strategy the combined category and score are
\* the primary source's, and the combined confidence is
\* min(0.95, primary confidence + 0.1) when the sources agree and the primary
\* confidence times 0.9 when they differ.
C11_PrimaryStrategiesCapped ==
    PrimaryStrategy
        => /\ combined.result.category = PrimarySource.category
           /\ combined.result.score = PrimarySource.score
           /\ combined.result.confidence =
                  IF SourcesAgree
                  THEN RMin(Hundredths(95), RAdd(PrimarySource.confidence, Tenths(1)))
                  ELSE RMul(PrimarySource.confidence, Tenths(9))

\* Agreeing sources with a primary confidence of 0.9: the result has 0.95.
C11_Witness ==
    /\ PrimaryStrategy
    /\ SourcesAgree
    /\ PrimarySource.confidence = Tenths(9)
    /\ combined.result.confidence = Hundredths(95)

\* C18: under every strategy the combined category is the category of one of
\* the two source results.
C18_CategoryFromASource ==
    (combined.made /\ "result" \in DOMAIN combined)
        => combined.result.category \in {combined.transformer_result.category,
                                         combined.llm_result.category}

\* Disagreeing sources under the weighted average, the LLM being the more
\* confident: the combined category is the LLM's.
C18_Witness ==
    /\ Combined(WEIGHTED_AVERAGE)
    /\ ~SourcesAgree
    /\ RLess(combined.transformer_result.confidence, combined.llm_result.confidence)
    /\ combined.result.category = combined.llm_result.category

-----------------------------------------------------------------------------
(* Properties of analyze                                                   *)

Analyzed == combined.made /\ "outcome" \in DOMAIN combined

\* llm_result is None: the LLM call was not made, or it raised.
LlmMissing == ~combined.use_llm \/ combined.llm_call.raised

\* The LLM call returned the result its analyzer builds when the API request
\* fails.
LlmFailedInside ==
    /\ combined.use_llm
    /\ ~combined.llm_call.raised
    /\ combined.llm_call.result = LlmErrorResult

\* The LLM call returned an analysis.
LlmSucceeded ==
    /\ combined.use_llm
    /\ ~combined.llm_call.raised
    /\ combined.llm_call.result # LlmErrorResult

TransformerSucceeded == ~combined.transformer_call.raised

AnalyzeResult == combined.outcome.result

\* C12 as claimed: with the LLM source unavailable or disabled, analyze
\* returns the transformer's category and score, tagged as single-source, with
\* the confidence min(0.95, 1.1 x transformer confidence), under every
\* strategy.
C12_SingleSourceBoost ==
    (Analyzed /\ TransformerSucceeded /\ LlmMissing)
        => LET first == combined.transformer_call.result
           IN  /\ ~combined.outcome.raised
               /\ AnalyzeResult.category = first.category
               /\ AnalyzeResult.score = first.score
               /\ AnalyzeResult.analysis_source = "transformer_only"
               /\ AnalyzeResult.combination_strategy = "fallback"
               /\ AnalyzeResult.confidence =
                      RMin(Hundredths(95), RMul(first.confidence, Rat(11, 10)))

\* C12 amended: with the LLM source unavailable or disabled, analyze returns
\* the transformer's category and score, tagged as single-source, under every
\* strategy; the confidence is min(0.95, 1.1 x transformer confidence) when
\* the transformer confidence exceeds 0.6 and the transformer confidence
\* itself otherwise.
C12_SingleSourceBoostAboveThreshold ==
    (Analyzed /\ TransformerSucceeded /\ LlmMissing)
        => LET first == combined.transformer_call.result
           IN  /\ ~combined.outcome.raised
               /\ AnalyzeResult.category = first.category
               /\ AnalyzeResult.score = first.score
               /\ AnalyzeResult.analysis_source = "transformer_only"
               /\ AnalyzeResult.combination_strategy = "fallback"
               /\ AnalyzeResult.has_llm = FALSE
               /\ AnalyzeResult.confidence =
                      IF RLess(Tenths(6), first.confidence)
                      THEN RMin(Hundredths(95), RMul(first.confidence, Rat(11, 10)))
                      ELSE first.confidence

\* The LLM is disabled, the strategy is not the default one, and a
\* transformer confidence of 0.5 is returned as it is.
C12_Witness ==
    /\ Analyzed
    /\ TransformerSucceeded
    /\ ~combined.use_llm
    /\ strategy = CONSENSUS
    /\ combined.transformer_call.result.confidence = Tenths(5)
    /\ AnalyzeResult.confidence = Tenths(5)
    /\ AnalyzeResult.analysis_source = "transformer_only"

\* Exactly one of the two sources failed.
OneSourceFailed ==
    \/ ~TransformerSucceeded /\ LlmSucceeded
    \/ TransformerSucceeded /\ combined.use_llm /\ combined.llm_call.raised
    \/ TransformerSucceeded /\ LlmFailedInside

SurvivingResult ==
    IF TransformerSucceeded THEN combined.transformer_call.result
    ELSE combined.llm_call.result

\* C13: whenever exactly one source fails (the transformer call raises, the
\* LLM call raises, or the LLM API request fails inside its analyzer),
\* analyze returns the category and score of the surviving source, tagged as
\* single-source.
C13_SingleSourceFallback ==
    (Analyzed /\ OneSourceFailed)
        => /\ ~combined.outcome.raised
           /\ AnalyzeResult.category = SurvivingResult.category
           /\ AnalyzeResult.score = SurvivingResult.score
           /\ AnalyzeResult.combination_strategy = "fallback"

\* C14: no exception escapes a well-formed call: every classify_emotion call
\* returns a ClassificationResult with a category of the enumeration, and
\* every analyze call returns a result carrying category, score and
\* confidence, under every strategy and whatever the two source calls did.
C14_NoExceptionEscapes ==
    /\ \A i \in ClassifyCalls :
           /\ DOMAIN history[i].result =
                  {"category", "confidence", "score", "matched_patterns"}
           /\ history[i].result.category \in Categories
    /\ Analyzed
           => /\ ~combined.outcome.raised
              /\ {"category", "score", "confidence"} \subseteq DOMAIN AnalyzeResult
              /\ AnalyzeResult.category \in Categories

\* Both source calls raised after the source's classifier took the
\* too-short branch, and analyze still returned a result.
C14_Witness ==
    /\ Analyzed
    /\ ~TransformerSucceeded
    /\ combined.use_llm
    /\ combined.llm_call.raised
    /\ ~combined.outcome.raised
    /\ AnalyzeResult.category = REFLECTIVE_NEUTRAL
    /\ Len(history) = 1
    /\ branch_of[history[1].text] = "too_short"

-----------------------------------------------------------------------------
(* Properties of the calibration store                                     *)

\* 1 + (accuracy - 0.5)
Multiplier(accuracy) == RAdd(One, RSub(accuracy, Tenths(5)))

\* The logged updates of a (speaker, category) pair among the first n calls.
UpdatesOf(speaker_id, category, n) ==
    {i \in 1..n : /\ IsUpdate(history[i])
                  /\ history[i].speaker_id = speaker_id
                  /\ history[i].category = category}

RECURSIVE ProductInOrder(_, _, _)
\* The product of the multipliers of the pair's updates, in call order.
ProductInOrder(speaker_id, category, n) ==
    IF n = 0 THEN One
    ELSE IF n \in UpdatesOf(speaker_id, category, n)
    THEN RMul(ProductInOrder(speaker_id, category, n - 1),
              Multiplier(history[n].accuracy))
    ELSE ProductInOrder(speaker_id, category, n - 1)

RECURSIVE RPow(_, _)
RPow(x, n) == IF n = 0 THEN One ELSE RMul(x, RPow(x, n - 1))

\* How many of the pair's updates carried the given accuracy.
TimesGiven(speaker_id, category, accuracy) ==
    Cardinality({i \in UpdatesOf(speaker_id, category, Len(history)) :
                    history[i].accuracy = accuracy})

\* The product computed from the number of updates of each accuracy alone,
\* leaving out the updates of accuracy 0.5.
ProductByCount(speaker_id, category) ==
    RMul(RPow(Multiplier(Tenths(2)), TimesGiven(speaker_id, category, Tenths(2))),
         RPow(Multiplier(Tenths(8)), TimesGiven(speaker_id, category, Tenths(8))))

UpdatedSpeakers ==
    {history[i].speaker_id : i \in {j \in 1..Len(history) : IsUpdate(history[j])}}

\* C15: after any sequence of update_speaker_profile calls the stored factor
\* of a (speaker, category) pair is the product of 1 + (accuracy - 0.5) over
\* the updates of that pair, starting from 1.0; updates of accuracy 0.5 and
\* the order of the updates make no difference, and a speaker has a profile
\* exactly when an update named them.
C15_FactorIsProductOfUpdates ==
    /\ DOMAIN speaker_profiles = UpdatedSpeakers
    /\ \A speaker_id \in DOMAIN speaker_profiles, category \in Categories :
           /\ speaker_profiles[speaker_id][category] =
                  ProductInOrder(speaker_id, category, Len(history))
           /\ speaker_profiles[speaker_id][category] =
                  ProductByCount(speaker_id, category)

\* One pair updated three times, with 0.8, 0.5 and 0.2 in this order: the
\* factor is 1.3 x 1.0 x 0.7 = 0.91, while the speaker's other factors and the
\* other speaker are untouched.
C15_Witness ==
    /\ Len(history) = 3
    /\ \A i \in 1..3 : /\ history[i].speaker_id = "alice"
                       /\ history[i].category = HOPE
    /\ history[1].accuracy = Tenths(8)
    /\ history[2].accuracy = Tenths(5)
    /\ history[3].accuracy = Tenths(2)
    /\ speaker_profiles["alice"][HOPE] = Hundredths(91)
    /\ speaker_profiles["alice"][SORROW] = One
    /\ "bob" \notin DOMAIN speaker_profiles

-----------------------------------------------------------------------------
(* Properties of concurrent calls                                          *)

AllDone == \A t \in Threads : threads[t].pc = "done"

UpdateThreads == {t \in Threads : threads[t].pc # "idle"
                                  /\ threads[t].op = "update_speaker_profile"}

ClassifyThreads == {t \in Threads : threads[t].pc # "idle"
                                    /\ threads[t].op = "classify_emotion"}

RECURSIVE ProductOfThreads(_, _, _)
\* The product of the multipliers of the update calls of threads 1..n for a
\* (speaker, category) pair.
ProductOfThreads(speaker_id, category, n) ==
    IF n = 0 THEN One
    ELSE IF /\ n \in UpdateThreads
            /\ threads[n].speaker_id = speaker_id
            /\ threads[n].category = category
    THEN RMul(ProductOfThreads(speaker_id, category, n - 1),
              Multiplier(threads[n].accuracy))
    ELSE ProductOfThreads(speaker_id, category, n - 1)

\* C16: read-modify-write access to the calibration store is serialized per
\* speaker: once concurrent update_speaker_profile calls have all returned,
\* every factor is the product of the multipliers of all the calls for its
\* (speaker, category) pair, so no update is lost.
C16_NoLostUpdate ==
    (AllDone /\ UpdateThreads = Threads)
        => \A t \in Threads :
               /\ threads[t].speaker_id \in DOMAIN speaker_profiles
               /\ \A category \in Categories :
                      speaker_profiles[threads[t].speaker_id][category] =
                          ProductOfThreads(threads[t].speaker_id, category, MaxThreads)

IsPrefix(a, b) == Len(a) <= Len(b) /\ SubSeq(b, 1, Len(a)) = a

\* C17: each speaker's narrative-arc log is append-only: whatever the
\* interleaving of classify_emotion calls, a step leaves every log in place
\* with its entries and their order, adding at most one entry at the end.
C17_ArcLogAppendOnly ==
    [][\A speaker_id \in DOMAIN narrative_arcs :
           /\ speaker_id \in DOMAIN narrative_arcs'
           /\ IsPrefix(narrative_arcs[speaker_id], narrative_arcs'[speaker_id])
           /\ Len(narrative_arcs'[speaker_id]) <= Len(narrative_arcs[speaker_id]) + 1
      ]_vars

=============================================================================
